---- MODULE Spec2Model ----
(***************************************************************************)
(* Model of the FSA construction engine of Fsa.py: the Graph container,    *)
(* the Asg, Ctc and Hmm builders, and the helpers they use.                *)
(*                                                                         *)
(* Representation of Python values:                                        *)
(*   - a str is the sequence of its character codes ("ab" is <<97, 98>>),  *)
(*   - an edge label is a tagged record: a str label, an int label or None *)
(*     (Python 2 orders every int before every str),                       *)
(*   - None for an int-valued attribute is the value None (= -1),          *)
(*   - the float weights 0.0 and 1.0 are the integers 0 and 1.             *)
(***************************************************************************)
EXTENDS Integers, Sequences, FiniteSets, TLC

VARIABLES
  lem_list,        \* Graph.lem_list: list of words, a word is a str
  num_states,      \* Graph.num_states: working state count, -1 when unset
  edges,           \* Graph.edges: working edge list
  num_states_asg,  \* Graph.num_states_asg
  edges_asg,       \* Graph.edges_asg
  num_states_ctc,  \* Graph.num_states_ctc
  edges_ctc,       \* Graph.edges_ctc
  num_states_hmm,  \* Graph.num_states_hmm
  edges_hmm,       \* Graph.edges_hmm
  asg,             \* the Asg builder object (NoBuilder before construction)
  ctc,             \* the Ctc builder object
  hmm,             \* the Hmm builder object
  pc,              \* position of the control flow inside Hmm.run ("idle" outside)
  sort_idx,        \* local sort_idx of the renumbering loop of Hmm.run
  raised,          \* number of builder runs that ended with an exception
  edges_single_state,  \* the list a call of Graph.make_single_state_graph returned
  state_models,    \* BuildSimpleFsaOp.state_models: label -> state model
  labels,          \* inputs[0] of BuildSimpleFsaOp.perform, one list of labels per column b
  output_storage,  \* the three outputs of BuildSimpleFsaOp.perform
  fsa_shared,      \* a FastBwFsaShared object: [num_states, edges]
  fast_bw_fsa      \* what the getters of FastBwFsaShared returned for an n_batch

vars == <<lem_list, num_states, edges, num_states_asg, edges_asg, num_states_ctc,
          edges_ctc, num_states_hmm, edges_hmm, asg, ctc, hmm, pc, sort_idx, raised,
          edges_single_state, state_models, labels, output_storage, fsa_shared,
          fast_bw_fsa>>

\* the variables of the theano op and of the shared FSA, and those of the Graph
\* and its builders
op_vars == <<state_models, labels, output_storage, fsa_shared, fast_bw_fsa>>

graph_vars == <<lem_list, num_states, edges, num_states_asg, edges_asg, num_states_ctc,
                edges_ctc, num_states_hmm, edges_hmm, asg, ctc, hmm, pc, sort_idx,
                raised, edges_single_state>>

\* no BuildSimpleFsaOp and no FastBwFsaShared object is in use
OpsUnused ==
  /\ state_models = <<>> /\ labels = <<>> /\ output_storage = <<>>
  /\ fsa_shared = <<>> /\ fast_bw_fsa = <<>>

graph_out == <<num_states_asg, edges_asg, num_states_ctc, edges_ctc,
               num_states_hmm, edges_hmm>>

(***************************************************************************)
(* Bounds of the model.                                                    *)
(***************************************************************************)
MaxLabels == 4      \* labels (characters) of an input sentence, Asg and Ctc alone
MaxMixed == 2       \* labels of an input sentence all three builders are run on
MaxWords == 2       \* words of an input sentence the Hmm builder alone is run on
MaxAllo == 3        \* largest allo_num_states the Hmm builder is run with
MaxCtcRuns == 2     \* runs of one Ctc builder object
MaxRaised == 1      \* builder runs that may end with an exception
MaxNode == 2        \* largest state index of a synthetic edge list (repair pass)
MaxEdges == 3       \* longest synthetic edge list (repair pass)
MaxConv == 3        \* labels of an input sentence the builders with conversion are run on
MaxStatic == 2      \* longest edge list the static functions are called on
MaxSym == 3       \* labels of a sentence with reserved symbols
MaxRows == 2      \* rows of the label matrix of BuildSimpleFsaOp
MaxBatch == 2     \* columns of the label matrix; n_batch of FastBwFsaShared
MaxShared == 2    \* edges of a FastBwFsaShared object

(***************************************************************************)
(* Python values.                                                          *)
(***************************************************************************)
None == -1
Unset == -1

Str(s) == [s |-> s, t |-> "str", n |-> 0]
Num(n) == [s |-> <<>>, t |-> "int", n |-> n]
NoneLabel == [s |-> <<>>, t |-> "none", n |-> 0]

SIL == Str(<<95>>)
EPS == Str(<<42>>)
BLANK == Str(<<37>>)

RECURSIVE SeqLess(_, _, _)
\* str < str of Python: lexicographic on the character codes, from index i
SeqLess(a, b, i) ==
  IF i > Len(b) THEN FALSE
  ELSE IF i > Len(a) THEN TRUE
  ELSE IF a[i] # b[i] THEN a[i] < b[i]
  ELSE SeqLess(a, b, i + 1)

\* Python 2 order on labels: None < numbers < strings
Rank(l) == IF l.t = "none" THEN 0 ELSE IF l.t = "int" THEN 1 ELSE 2

LabelLess(a, b) ==
  IF Rank(a) # Rank(b) THEN Rank(a) < Rank(b)
  ELSE IF a.t = "int" THEN a.n < b.n
  ELSE SeqLess(a.s, b.s, 1)

IsSpace(c) == c \in {9, 10, 11, 12, 13, 32}

\* str.lower()
Lower(s) == [i \in 1..Len(s) |-> IF s[i] >= 65 /\ s[i] <= 90 THEN s[i] + 32 ELSE s[i]]

RECURSIVE LStrip(_)
LStrip(s) == IF s # <<>> /\ IsSpace(Head(s)) THEN LStrip(Tail(s)) ELSE s

RECURSIVE RStrip(_)
RStrip(s) ==
  IF s # <<>> /\ IsSpace(s[Len(s)]) THEN RStrip(SubSeq(s, 1, Len(s) - 1)) ELSE s

\* str.strip()
Strip(s) == RStrip(LStrip(s))

RECURSIVE SplitFrom(_, _, _, _)
SplitFrom(s, i, cur, acc) ==
  IF i > Len(s) THEN (IF cur = <<>> THEN acc ELSE Append(acc, cur))
  ELSE IF IsSpace(s[i])
    THEN SplitFrom(s, i + 1, <<>>, IF cur = <<>> THEN acc ELSE Append(acc, cur))
    ELSE SplitFrom(s, i + 1, Append(cur, s[i]), acc)

\* str.split(): split on runs of whitespace, no empty words
Split(s) == SplitFrom(s, 1, <<>>, <<>>)

RECURSIVE SplitOnFrom(_, _, _, _, _)
SplitOnFrom(s, sep, i, cur, acc) ==
  IF i > Len(s) THEN Append(acc, cur)
  ELSE IF s[i] = sep
    THEN SplitOnFrom(s, sep, i + 1, <<>>, Append(acc, cur))
    ELSE SplitOnFrom(s, sep, i + 1, Append(cur, s[i]), acc)

\* str.split(sep) with a one-character separator: empty pieces are kept
SplitOn(s, sep) == SplitOnFrom(s, sep, 1, <<>>, <<>>)

\* seq[i] of Python for a 0-based index i that may be negative
PyIndex(seq, i) == IF i < 0 THEN seq[Len(seq) + i + 1] ELSE seq[i + 1]

(***************************************************************************)
(* class Edge                                                              *)
(***************************************************************************)
Edge(source, target, label, weight) ==
  [label |-> label, weight |-> weight,
   source_state_idx |-> source, target_state_idx |-> target,
   label_prev |-> NoneLabel, label_next |-> NoneLabel,
   idx_word_in_sentence |-> None, idx_phon_in_word |-> None, idx |-> None,
   allo_idx |-> None, phon_at_word_begin |-> FALSE, phon_at_word_end |-> FALSE,
   score |-> None, is_loop |-> FALSE]

as_tuple(e) == <<e.source_state_idx, e.target_state_idx, e.label, e.weight>>

\* Edge.__lt__: as_tuple() < other.as_tuple()
EdgeLess(a, b) ==
  IF a.source_state_idx # b.source_state_idx THEN a.source_state_idx < b.source_state_idx
  ELSE IF a.target_state_idx # b.target_state_idx
    THEN a.target_state_idx < b.target_state_idx
  ELSE IF a.label # b.label THEN LabelLess(a.label, b.label)
  ELSE a.weight < b.weight

\* a variant of the sort below that leaves the list as it is
NoSort(es) == es

\* list.sort() on a list of Edge: the stable sort by as_tuple() (TLC evaluates
\* SortSeq as a stable insertion sort)
Sort(es) == SortSeq(es, EdgeLess)

\* the positions of the edges of es that satisfy Test, in list order
Positions(es, Test(_)) == SelectSeq([i \in 1..Len(es) |-> i], LAMBDA i: Test(es[i]))

(***************************************************************************)
(* class Graph                                                             *)
(***************************************************************************)
PyStr(s) == [kind |-> "str", str |-> s, list |-> <<>>]
PyList(l) == [kind |-> "list", str |-> <<>>, list |-> l]

\* Graph.__init__: the lem_list of a str or list input
GraphLemList(lemma) ==
  IF lemma.kind = "str" THEN Split(Lower(Strip(lemma.str))) ELSE lemma.list

\* "for edge in edges_single_state" on the list es when n (num_states) > 1
SingleState(n, es) ==
  IF n > 1
    THEN [i \in 1..Len(es) |->
            [es[i] EXCEPT !.source_state_idx = 0, !.target_state_idx = 0]]
    ELSE es

\* a variant of the function below without the deepcopy: the loop writes to
\* the list of the caller, which is the list returned
make_single_state_graph_alias(n, es) ==
  [edges |-> SingleState(n, es), edges_single_state |-> SingleState(n, es)]

\* Graph.make_single_state_graph(num_states, edges): edges is the list of the
\* caller after the call, edges_single_state the returned list, the deepcopy
\* the loop has written to
make_single_state_graph(n, es) ==
  [edges |-> es, edges_single_state |-> SingleState(n, es)]

(***************************************************************************)
(* class Store: label conversion                                           *)
(***************************************************************************)
\* a variant of the conversion below that takes the character code of every
\* str label, the reserved symbols included
ConvertEveryStr(e) ==
  IF e.label.t = "int" THEN e ELSE [e EXCEPT !.label = Num(e.label.s[1])]

\* Store.label_conversion on one edge (a str label is a single character)
ConvertLabel(e) ==
  IF e.label = BLANK THEN [e EXCEPT !.label = Num(32)]
  ELSE IF e.label = SIL \/ e.label = EPS \/ e.label.t = "int" THEN e
  ELSE [e EXCEPT !.label = Num(e.label.s[1])]

label_conversion(es) == [i \in 1..Len(es) |-> ConvertLabel(es[i])]

(***************************************************************************)
(* class Asg                                                               *)
(***************************************************************************)
NoAsg == [label_conversion |-> FALSE, built |-> FALSE, num_labels |-> 0,
          asg_repetition |-> 0, separator |-> FALSE]

\* Asg.__init__: only the types of the arguments are tested
AsgNew(num_labels, asg_repetition, conversion) ==
  [label_conversion |-> conversion, built |-> TRUE, num_labels |-> num_labels,
   asg_repetition |-> asg_repetition, separator |-> FALSE]

\* a variant of the iteration below that counts every repetition, without the
\* test against asg_repetition
AsgScanLabelNoCap(a, st, label) ==
  IF label = st.prev
    THEN [st EXCEPT !.cnt = st.cnt + 1, !.prev = label]
    ELSE IF st.cnt # 0
           THEN [reps |-> st.reps \o <<Num(a.num_labels + st.cnt), label>>,
                 prev |-> label, cnt |-> 0]
           ELSE [st EXCEPT !.reps = Append(st.reps, label), !.prev = label]

\* one iteration of "for label in lem" of Asg.run; st = [reps, prev, cnt]
AsgScanLabel(a, st, label) ==
  IF label = st.prev
    THEN IF st.cnt < a.asg_repetition
           THEN [st EXCEPT !.cnt = st.cnt + 1, !.prev = label]
           ELSE [st EXCEPT !.reps = Append(st.reps, Num(a.num_labels + st.cnt)),
                           !.cnt = 1, !.prev = label]
    ELSE IF st.cnt # 0
           THEN [reps |-> st.reps \o <<Num(a.num_labels + st.cnt), label>>,
                 prev |-> label, cnt |-> 0]
           ELSE [st EXCEPT !.reps = Append(st.reps, label), !.prev = label]

RECURSIVE AsgScanWord(_, _, _, _)
AsgScanWord(a, lem, i, st) ==
  IF i > Len(lem) THEN st
  ELSE AsgScanWord(a, lem, i + 1, AsgScanLabel(a, st, Str(<<lem[i]>>)))

RECURSIVE AsgScanWords(_, _, _, _, _, _)
\* "for lem in self.fsa.lem_list": label_prev and rep_count live across the words
AsgScanWords(a, lems, w, prev, cnt, acc) ==
  IF w > Len(lems) THEN acc
  ELSE LET st == AsgScanWord(a, lems[w], 1, [reps |-> <<>>, prev |-> prev, cnt |-> cnt])
       IN AsgScanWords(a, lems, w + 1, st.prev, st.cnt, Append(acc, st.reps))

\* the list label_repetitions of Asg.run
AsgLabelRepetitions(a, lems) == AsgScanWords(a, lems, 1, NoneLabel, 0, <<>>)

RECURSIVE AsgWordEdges(_, _, _, _)
\* "for idx, lab in enumerate(rep_label)"; g = [num_states, edges, cur_idx, src_idx, trgt_idx]
AsgWordEdges(rep_label, rep_index, i, g) ==
  IF i > Len(rep_label) THEN g
  ELSE LET e == [Edge(g.cur_idx, g.cur_idx + 1, rep_label[i], 0) EXCEPT
                   !.idx_word_in_sentence = rep_index,
                   !.idx_phon_in_word = i - 1,
                   !.idx = g.cur_idx,
                   !.phon_at_word_begin = (i - 1 = 0),
                   !.phon_at_word_end = (i - 1 = Len(rep_label) - 1)]
       IN AsgWordEdges(rep_label, rep_index, i + 1,
            [num_states |-> g.num_states + (IF g.cur_idx = 0 THEN 2 ELSE 1),
             edges |-> Append(g.edges, e),
             cur_idx |-> g.cur_idx + 1,
             src_idx |-> g.cur_idx,
             trgt_idx |-> g.cur_idx + 1])

RECURSIVE AsgCreateStates(_, _, _, _)
\* "for rep_index, rep_label in enumerate(label_repetitions)" with the separator
AsgCreateStates(a, reps, w, g) ==
  IF w > Len(reps) THEN g
  ELSE LET g1 == AsgWordEdges(reps[w], w - 1, 1, g)
           g2 == IF a.separator /\ w - 1 < Len(reps) - 1
                   THEN [g1 EXCEPT
                           !.edges = Append(g1.edges,
                                       Edge(g1.src_idx + 1, g1.trgt_idx + 1, BLANK, 0)),
                           !.num_states = g1.num_states + 1,
                           !.cur_idx = g1.cur_idx + 1]
                   ELSE g1
       IN AsgCreateStates(a, reps, w + 1, g2)

\* the self-loop copy of an edge, flagged as a loop
AsgLoopEdge(e) == [e EXCEPT !.source_state_idx = e.target_state_idx, !.is_loop = TRUE]

\* a variant of the test below that takes every edge ending at loop_idx,
\* whatever its label
AsgLoopTestAny(e, loop_idx) == e.target_state_idx = loop_idx

AsgLoopTest(e, loop_idx) ==
  e.target_state_idx = loop_idx /\ e.label # EPS /\ e.label # SIL

\* the loop copies the iteration loop_idx appends
AsgLoopsOf(es, loop_idx) ==
  LET pos == Positions(es, LAMBDA e: AsgLoopTest(e, loop_idx))
  IN [k \in 1..Len(pos) |-> AsgLoopEdge(es[pos[k]])]

RECURSIVE AsgLoops(_, _, _)
\* the loop copies the iterations lo..hi append, in this order: a copy appended
\* by an earlier iteration has the target of that iteration, so that each
\* iteration finds its edges among those of es
AsgLoops(es, lo, hi) ==
  IF lo > hi THEN <<>>
  ELSE IF lo = hi THEN AsgLoopsOf(es, lo)
  ELSE AsgLoops(es, lo, (lo + hi) \div 2) \o AsgLoops(es, (lo + hi) \div 2 + 1, hi)

\* "for loop_idx in range(1, self.fsa.num_states)"
AsgAddLoops(es, loop_idx, n) == es \o AsgLoops(es, loop_idx, n - 1)

\* Asg.run up to the finalisation, started with the working edge list es
AsgBuild(a, lems, es) ==
  LET g == AsgCreateStates(a, AsgLabelRepetitions(a, lems), 1,
             [num_states |-> 0, edges |-> es, cur_idx |-> 0, src_idx |-> 0, trgt_idx |-> 0])
      sorted == Sort(AsgAddLoops(g.edges, 1, g.num_states))
  IN [num_states |-> g.num_states,
      edges |-> IF a.label_conversion THEN label_conversion(sorted) ELSE sorted]

(***************************************************************************)
(* class Ctc                                                               *)
(***************************************************************************)
NoCtc == [label_conversion |-> FALSE, built |-> FALSE, num_labels |-> 0,
          final_states |-> <<>>, runs |-> 0]

\* Ctc.__init__ (runs counts the calls of run on this object, for the bound)
CtcNew(num_labels, conversion) ==
  [label_conversion |-> conversion, built |-> TRUE, num_labels |-> num_labels,
   final_states |-> <<>>, runs |-> 0]

\* a variant of the condition below that gives every label its direct edge
CtcDirectAlways(seq, i) == TRUE

\* the test that decides whether the direct edge of seq[i] is appended
CtcDirectEdge(seq, i) == PyIndex(seq, i) # PyIndex(seq, i - 1) \/ Len(seq) = 1

RECURSIVE CtcWordEdges(_, _, _, _)
\* "for i, label in enumerate(seq)"; g = [num_states, edges, cur_idx]; i is 0-based
CtcWordEdges(seq, idx, i, g) ==
  IF i >= Len(seq) THEN g
  ELSE LET src_idx == 2 * g.cur_idx
           trgt_idx == src_idx + 2
           e_norm == [Edge(src_idx, trgt_idx, Str(<<PyIndex(seq, i)>>), 0) EXCEPT
                        !.idx = g.cur_idx,
                        !.idx_word_in_sentence = idx,
                        !.idx_phon_in_word = i]
           e_blank == Edge(src_idx, trgt_idx - 1, BLANK, 0)
           e_rep == [e_norm EXCEPT !.source_state_idx = src_idx + 1]
       IN CtcWordEdges(seq, idx, i + 1,
            [num_states |-> g.num_states + (IF g.cur_idx = 0 THEN 3 ELSE 2),
             edges |-> g.edges
                       \o (IF CtcDirectEdge(seq, i) THEN <<e_norm>> ELSE <<>>)
                       \o <<e_blank, e_rep>>,
             cur_idx |-> g.cur_idx + 1])

\* "if idx < len(self.fsa.lem_list) - 1": the separator after a word that is
\* not the last (more); g = [num_states, edges, cur_idx]
CtcSeparator(g, more) ==
  IF more
    THEN [num_states |-> g.num_states + 2,
          edges |-> g.edges \o <<Edge(2 * g.cur_idx, 2 * g.cur_idx + 1, BLANK, 0),
                                 Edge(2 * g.cur_idx + 1, 2 * g.cur_idx + 2, SIL, 0),
                                 Edge(2 * g.cur_idx, 2 * g.cur_idx + 2, SIL, 0)>>,
          cur_idx |-> g.cur_idx + 1]
    ELSE g

RECURSIVE CtcLattice(_, _, _)
\* "for idx, seq in enumerate(self.fsa.lem_list)"; w is 1-based
CtcLattice(lems, w, g) ==
  IF w > Len(lems) THEN g
  ELSE LET g1 == CtcWordEdges(lems[w], w - 1, 0, g)
           g2 == CtcSeparator(g1, w - 1 < Len(lems) - 1)
       IN CtcLattice(lems, w + 1, g2)

\* "add all final possibilities": the three tail edges; g = [num_states, edges]
CtcTail(lems, g) ==
  LET n == g.num_states
      last == lems[Len(lems)]
  IN [num_states |-> n + 3,
      edges |-> g.edges \o <<Edge(n - 3, n, BLANK, 1),
                              Edge(n + 1, n + 2, BLANK, 1),
                              Edge(n, n + 1, Str(<<last[Len(last)]>>), 1)>>]

\* a variant of the unification below that adds the edge of each final state to
\* the new final node and no copy of the edges that end in the final states
CtcUnifyNoCopies(final_states, k, n, es) ==
  es \o [j \in 1..Len(final_states) |->
           Edge(final_states[j], n - 1,
                es[Positions(es, LAMBDA e: e.target_state_idx = final_states[j])[1]].label, 0)]

RECURSIVE CtcUnify(_, _, _, _)
\* "for fstate in self.final_states" with the new single final node n - 1
CtcUnify(final_states, k, n, es) ==
  IF k > Len(final_states) THEN es
  ELSE LET fstate == final_states[k]
           final_state_idx_list == Positions(es, LAMBDA e: e.target_state_idx = fstate)
           final_state_node == Edge(fstate, n - 1, es[final_state_idx_list[1]].label, 0)
           copies == [j \in 1..Len(final_state_idx_list) |->
                        [es[final_state_idx_list[j]] EXCEPT !.target_state_idx = n - 1]]
       IN CtcUnify(final_states, k + 1, n, es \o <<final_state_node>> \o copies)

\* "make single final node"
CtcSingleFinal(final_states, g) ==
  IF ~(Len(final_states) = 1 /\ final_states[1] = g.num_states - 1)
    THEN [num_states |-> g.num_states + 1,
          edges |-> CtcUnify(final_states, 1, g.num_states + 1, g.edges)]
    ELSE g

\* the loop the iteration loop_idx appends: the copy of the first edge into it
CtcLoopOf(es, loop_idx) ==
  LET edges_add_loop == Positions(es, LAMBDA e: e.target_state_idx = loop_idx)
  IN [es[edges_add_loop[1]] EXCEPT !.source_state_idx = loop_idx, !.is_loop = TRUE]

\* a variant of the loop synthesis below that copies every edge into a state,
\* as the synthesis of Asg does
CtcAddLoopsAll(es, loop_idx, n) ==
  LET pos == Positions(es, LAMBDA e: e.target_state_idx \in loop_idx..(n - 2))
  IN es \o [k \in 1..Len(pos) |->
              [es[pos[k]] EXCEPT !.source_state_idx = es[pos[k]].target_state_idx,
                                 !.is_loop = TRUE]]

\* "for loop_idx in range(1, self.fsa.num_states - 1)": one loop per state; a
\* loop appended by an earlier iteration has the target of that iteration, so
\* that each iteration finds its edge among those of es
CtcAddLoops(es, loop_idx, n) ==
  es \o [k \in 1..(n - 1 - loop_idx) |-> CtcLoopOf(es, loop_idx + k - 1)]

\* "add loops" to "sort_node": loops, label conversion, sort; g = [num_states, edges]
CtcFinishEdges(c, g) ==
  LET looped == CtcAddLoops(g.edges, 1, g.num_states)
      conv == IF c.label_conversion THEN label_conversion(looped) ELSE looped
  IN Sort(conv)

\* the result of Ctc.run; g = [num_states, edges]
CtcResult(c, fs, g) ==
  [num_states |-> g.num_states, edges |-> CtcFinishEdges(c, g), final_states |-> fs]

\* "make single final node" onwards, with the final states fs collected so far
CtcClose(c, fs, g) ==
  LET g2 == CtcSingleFinal(fs, g)
  IN CtcResult(c, fs, g2)

\* the tail onwards; fs1 are the final states after "create final state"
CtcFinals(c, fs1, g1) ==
  LET fs2 == Append(fs1, g1.num_states - 1)
  IN CtcClose(c, fs2, g1)

\* "create final state" onwards; g0 is the lattice of the sentence
CtcAfterLattice(c, lems, g0) ==
  LET g1 == CtcTail(lems, g0)
  IN CtcFinals(c, Append(c.final_states, g0.num_states - 1), g1)

\* Ctc.run up to the finalisation, started with the working edge list es
CtcBuild(c, lems, es) ==
  LET g0 == CtcLattice(lems, 1, [num_states |-> 0, edges |-> es, cur_idx |-> 0])
  IN CtcAfterLattice(c, lems, g0)

(***************************************************************************)
(* class Hmm                                                               *)
(***************************************************************************)
NoHmm == [built |-> FALSE, depth |-> 0, allo_num_states |-> 0,
          state_tying_conversion |-> FALSE, lexicon |-> <<>>, allo_map |-> <<>>]

\* Hmm.__init__ followed by the assignment of the two collaborators:
\* lexicon maps a word to its list of variants [phon, score], allo_map is
\* StateTying.allo_map
HmmNew(depth, allo_num_states, conversion, lexicon, allo_map) ==
  [built |-> TRUE, depth |-> depth, allo_num_states |-> allo_num_states,
   state_tying_conversion |-> conversion, lexicon |-> lexicon, allo_map |-> allo_map]

\* Hmm._find_node_in_edges: per edge position 0 (node is the source), 1 (the
\* target), 2 (both); None stands for a position that is no key of the dict
_find_node_in_edges(node, es) ==
  [i \in 1..Len(es) |->
     IF es[i].source_state_idx = node /\ es[i].target_state_idx = node THEN 2
     ELSE IF es[i].target_state_idx = node THEN 1
     ELSE IF es[i].source_state_idx = node THEN 0
     ELSE None]

\* the assignments one dict entry (value v) makes to an edge: node becomes to
SwapAssign(e, v, to) ==
  IF v = 0 THEN [e EXCEPT !.source_state_idx = to]
  ELSE IF v = 1 THEN [e EXCEPT !.target_state_idx = to]
  ELSE IF v = 2 THEN [e EXCEPT !.source_state_idx = to, !.target_state_idx = to]
  ELSE e

\* a variant of the swap below that builds the second dict after the first loop
\* has written: the two states are merged instead of exchanged
SwapStatesInPlace(es, cur_source_state, cur_target_state) ==
  LET edges_with_cur_source_state == _find_node_in_edges(cur_source_state, es)
      written == [i \in 1..Len(es) |->
                    SwapAssign(es[i], edges_with_cur_source_state[i], cur_target_state)]
      edges_with_cur_target_state == _find_node_in_edges(cur_target_state, written)
  IN [i \in 1..Len(es) |->
        SwapAssign(written[i], edges_with_cur_target_state[i], cur_source_state)]

\* the body of "if cur_source_state > cur_target_state": both dicts are built
\* first, then the first loop writes cur_target_state, the second cur_source_state
SwapStates(es, cur_source_state, cur_target_state) ==
  LET edges_with_cur_source_state == _find_node_in_edges(cur_source_state, es)
      edges_with_cur_target_state == _find_node_in_edges(cur_target_state, es)
  IN [i \in 1..Len(es) |->
        SwapAssign(SwapAssign(es[i], edges_with_cur_source_state[i], cur_target_state),
                   edges_with_cur_target_state[i], cur_source_state)]

\* where the scan continues after a swap: "sort_idx = 0" and then "sort_idx += 1"
RestartIdx == 0 + 1

\* a variant of the iteration below that restarts the scan and leaves the
\* inverted edge as it is
RepairIterRestart(es, idx) == [edges |-> es, sort_idx |-> RestartIdx, swapped |-> TRUE]

\* a variant of the iteration below without the swap
RepairIterNoSwap(es, idx) == [edges |-> es, sort_idx |-> idx + 1, swapped |-> FALSE]

\* one iteration of "while sort_idx < len(self.fsa.edges)" (sort_idx is 0-based)
RepairIter(es, idx) ==
  LET cur_source_state == es[idx + 1].source_state_idx
      cur_target_state == es[idx + 1].target_state_idx
  IN IF cur_source_state > cur_target_state
       THEN [edges |-> SwapStates(es, cur_source_state, cur_target_state),
             sort_idx |-> RestartIdx, swapped |-> TRUE]
       ELSE [edges |-> es, sort_idx |-> idx + 1, swapped |-> FALSE]

\* the 0-based positions from idx on whose edge has source > target
Inverted(es, idx) ==
  {i \in idx..(Len(es) - 1) : es[i + 1].source_state_idx > es[i + 1].target_state_idx}

\* the iterations from sort_idx idx up to and including the next swap, or up to
\* the end of the loop: an iteration without a swap only increments sort_idx
RepairScan(es, idx) ==
  IF Inverted(es, idx) = {}
    THEN [edges |-> es, sort_idx |-> IF idx < Len(es) THEN Len(es) ELSE idx,
          swapped |-> FALSE]
    ELSE RepairIter(es, CHOOSE i \in Inverted(es, idx) : \A j \in Inverted(es, idx) : i <= j)

\* the phoneme edge of Hmm.run with its annotations; n is num_states after the
\* state bookkeeping of this phoneme
HmmPhonEdge(source_node, target_node, lem, phon_idx, word_idx, score, n) ==
  [Edge(source_node, target_node, Str(lem[phon_idx + 1]), 0) EXCEPT
     !.label_prev = IF phon_idx = 0 THEN Str(<<>>) ELSE Str(lem[phon_idx]),
     !.label_next = IF phon_idx = Len(lem) - 1 THEN Str(<<>>) ELSE Str(lem[phon_idx + 2]),
     !.score = IF phon_idx = 0 THEN score ELSE None,
     !.idx_word_in_sentence = word_idx,
     !.idx_phon_in_word = phon_idx,
     !.idx = n + phon_idx,
     !.phon_at_word_begin = (phon_idx = 0),
     !.phon_at_word_end = (phon_idx = Len(lem) - 1)]

\* a variant of the iteration below that chains every variant like the first
\* one, without the split and merge nodes
HmmPhonChained(g, phon_dict_len, lemma_idx, lem, phon_idx, word_idx, score) ==
  [g EXCEPT
     !.num_states = g.num_states + 1,
     !.edges = Append(g.edges,
                 HmmPhonEdge(g.num_states, g.num_states + 1, lem, phon_idx, word_idx,
                             score, g.num_states + 1)),
     !.source_node = g.num_states, !.target_node = g.num_states + 1]

\* one iteration of "for phon_idx, phon in enumerate(lem)";
\* g = [num_states, edges, split_node, merge_node, source_node, target_node, ok]
HmmPhon(g, phon_dict_len, lemma_idx, lem, phon_idx, word_idx, score) ==
  LET last == (phon_idx = Len(lem) - 1)
      split_node == IF phon_dict_len # 1 /\ lemma_idx = 0 /\ phon_idx = 0
                      THEN g.num_states ELSE g.split_node
      merge_node == IF phon_dict_len # 1 /\ lemma_idx = 0 /\ last
                      THEN g.num_states + 1 ELSE g.merge_node
      chain == (phon_dict_len = 1 \/ lemma_idx = 0)
      n == IF chain \/ phon_idx # 0 THEN g.num_states + 1 ELSE g.num_states
      source_node == IF chain THEN g.num_states
                     ELSE IF phon_idx = 0 THEN split_node ELSE n
      target_node == IF chain THEN g.num_states + 1
                     ELSE IF last THEN merge_node ELSE n + 1
  IN [g EXCEPT
        !.num_states = n,
        !.edges = Append(g.edges,
                    HmmPhonEdge(source_node, target_node, lem, phon_idx, word_idx, score, n)),
        !.split_node = split_node, !.merge_node = merge_node,
        !.source_node = source_node, !.target_node = target_node]

RECURSIVE HmmLemma(_, _, _, _, _, _, _)
HmmLemma(g, phon_dict_len, lemma_idx, lem, phon_idx, word_idx, score) ==
  IF phon_idx >= Len(lem) THEN g
  ELSE HmmLemma(HmmPhon(g, phon_dict_len, lemma_idx, lem, phon_idx, word_idx, score),
                phon_dict_len, lemma_idx, lem, phon_idx + 1, word_idx, score)

RECURSIVE HmmVariants(_, _, _, _)
\* "for lemma_idx, lemma in enumerate(self.phon_dict[word])"
HmmVariants(g, phons, lemma_idx, word_idx) ==
  IF lemma_idx >= Len(phons) THEN g
  ELSE HmmVariants(HmmLemma(g, Len(phons), lemma_idx,
                            SplitOn(phons[lemma_idx + 1].phon, 32), 0, word_idx,
                            phons[lemma_idx + 1].score),
                   phons, lemma_idx + 1, word_idx)

RECURSIVE HmmWords(_, _, _, _)
\* "for word_idx, word in enumerate(self.fsa.lem_list)"; the result has
\* ok = FALSE when the lexicon lookup of a word raised KeyError, with the
\* working fields as the iterations before it left them
HmmWords(h, lems, word_idx, g) ==
  IF ~g.ok \/ word_idx >= Len(lems) THEN g
  ELSE LET word == lems[word_idx + 1]
           g1 == IF word_idx = 0
                   THEN [g EXCEPT !.edges = g.edges \o <<Edge(0, 1, SIL, 0), Edge(0, 1, EPS, 0)>>,
                                  !.num_states = g.num_states + 2]
                   ELSE g
       IN IF word \notin DOMAIN h.lexicon THEN [g1 EXCEPT !.ok = FALSE]
          ELSE LET g2 == HmmVariants(g1, h.lexicon[word], 0, word_idx)
                   g3 == [g2 EXCEPT
                            !.edges = g2.edges
                                      \o <<Edge(g2.target_node, g2.num_states + 1, SIL, 0),
                                           Edge(g2.target_node, g2.num_states + 1, EPS, 0)>>,
                            !.num_states = g2.num_states + 1]
               IN HmmWords(h, lems, word_idx + 1, g3)

\* Hmm.run from its start to "final node": the working fields n, es are used as
\* they are found, they are not reset
HmmCreateStates(h, lems, n, es) ==
  LET g == HmmWords(h, lems, 0,
             [num_states |-> n, edges |-> es, split_node |-> 0, merge_node |-> 0,
              source_node |-> 0, target_node |-> 0, ok |-> TRUE])
  IN IF g.ok THEN [g EXCEPT !.num_states = g.num_states + 1] ELSE g

\* a variant of the expansion of one edge below that takes no fresh state per
\* sub-edge: the sub-edges of all chains pass through the state st.n
AlloChainShared(st, state, K, allo_target_idx) ==
  [st EXCEPT
     !.edge = [st.edge EXCEPT !.target_state_idx = st.n, !.allo_idx = 0],
     !.tmp = st.tmp \o [j \in 1..(K - 1) |->
                          [st.edge EXCEPT
                             !.allo_idx = j,
                             !.source_state_idx = st.n,
                             !.target_state_idx =
                               IF j = K - 1 THEN allo_target_idx ELSE st.n]]]

RECURSIVE AlloChain(_, _, _, _)
\* "for state in range(self.allo_num_states)" for one edge; st = [edge, n, tmp]
AlloChain(st, state, K, allo_target_idx) ==
  IF state >= K THEN st
  ELSE AlloChain(
         IF state = 0
           THEN [st EXCEPT !.edge = [st.edge EXCEPT !.target_state_idx = st.n,
                                                    !.allo_idx = state]]
         ELSE IF state = K - 1
           THEN [st EXCEPT !.tmp = Append(st.tmp,
                                     [st.edge EXCEPT !.allo_idx = state,
                                                     !.source_state_idx = st.n,
                                                     !.target_state_idx = allo_target_idx]),
                           !.n = st.n + 1]
         ELSE [st EXCEPT !.tmp = Append(st.tmp,
                                   [st.edge EXCEPT !.allo_idx = state,
                                                   !.source_state_idx = st.n,
                                                   !.target_state_idx = st.n + 1]),
                         !.n = st.n + 1],
         state + 1, K, allo_target_idx)

RECURSIVE AlloEdges(_, _, _, _, _)
\* "for edge in self.fsa.edges": the edge is changed in place, the new edges
\* are collected in edges_allo_tmp
AlloEdges(es, i, K, n, edges_allo_tmp) ==
  IF i > Len(es) THEN [num_states |-> n, edges |-> es \o edges_allo_tmp]
  ELSE IF es[i].label # SIL /\ es[i].label # EPS
    THEN LET st == AlloChain([edge |-> es[i], n |-> n, tmp |-> edges_allo_tmp],
                             0, K, es[i].target_state_idx)
         IN AlloEdges([es EXCEPT ![i] = st.edge], i + 1, K, st.n, st.tmp)
    ELSE AlloEdges(es, i + 1, K, n, edges_allo_tmp)

\* the allophone expansion of Hmm.run
HmmAlloExpand(h, n, es) ==
  IF h.allo_num_states > 1 THEN AlloEdges(es, 1, h.allo_num_states, n, <<>>)
  ELSE [num_states |-> n, edges |-> es]

HmmLoopTest(e, state) == e.target_state_idx = state /\ e.label # EPS

\* the loop copies the iteration state appends: they keep is_loop
HmmLoopsOf(es, state) ==
  LET edges_included == Positions(es, LAMBDA e: HmmLoopTest(e, state))
  IN [k \in 1..Len(edges_included) |->
        [es[edges_included[k]] EXCEPT !.source_state_idx = state]]

RECURSIVE HmmLoops(_, _, _)
\* the loop copies the iterations lo..hi append, in this order: a copy appended
\* by an earlier iteration has the target of that iteration, so that each
\* iteration finds its edges among those of es
HmmLoops(es, lo, hi) ==
  IF lo > hi THEN <<>>
  ELSE IF lo = hi THEN HmmLoopsOf(es, lo)
  ELSE HmmLoops(es, lo, (lo + hi) \div 2) \o HmmLoops(es, (lo + hi) \div 2 + 1, hi)

\* "for state in range(1, self.fsa.num_states)"
HmmAddLoops(es, state, n) == es \o HmmLoops(es, state, n - 1)

RECURSIVE Digits(_)
\* str(n) for n >= 0
Digits(n) == IF n < 10 THEN <<48 + n>> ELSE Digits(n \div 10) \o <<48 + (n % 10)>>

\* "%s" % label
Format(l) ==
  IF l.t = "str" THEN l.s
  ELSE IF l.t = "int" THEN Digits(l.n)
  ELSE <<78, 111, 110, 101>>

\* the characters [SILENCE]
SilenceToken == <<91, 83, 73, 76, 69, 78, 67, 69, 93>>

\* Hmm._build_allo_syntax_for_mapping: 123 {, 35 #, 43 +, 125 }, 64 @, 46 .
_build_allo_syntax_for_mapping(e) ==
  LET base == IF e.label = SIL THEN SilenceToken \o <<123, 35, 43, 35, 125>>
              ELSE IF e.label = EPS THEN <<42>>
              ELSE IF e.label_prev = Str(<<>>) /\ e.label_next = Str(<<>>)
                THEN Format(e.label) \o <<123, 35, 43, 35, 125>>
              ELSE IF e.label_prev = Str(<<>>)
                THEN Format(e.label) \o <<123, 35, 43>> \o Format(e.label_next) \o <<125>>
              ELSE IF e.label_next = Str(<<>>)
                THEN Format(e.label) \o <<123>> \o Format(e.label_prev) \o <<43, 35, 125>>
              ELSE Format(e.label) \o <<123>> \o Format(e.label_prev) \o <<43>>
                   \o Format(e.label_next) \o <<125>>
      begin == IF e.phon_at_word_begin THEN <<64, 105>> ELSE <<>>
      end == IF e.phon_at_word_end THEN <<64, 102>> ELSE <<>>
      allo == IF e.label = SIL THEN <<46, 48>>
              ELSE IF e.label = EPS THEN <<>>
              ELSE IF e.allo_idx # None THEN <<46>> \o Digits(e.allo_idx)
              ELSE <<>>
  IN base \o begin \o end \o allo

\* a variant of the body below without the test for the epsilon label
HmmTieLabelAll(h, e) ==
  LET allo_syntax == _build_allo_syntax_for_mapping(e)
  IN IF h.state_tying_conversion /\ allo_syntax \in DOMAIN h.allo_map
       THEN [e EXCEPT !.label = Num(h.allo_map[allo_syntax])]
       ELSE [e EXCEPT !.label = Str(allo_syntax)]

\* the body of "for edge in self.fsa.edges" of the state tying part
HmmTieLabel(h, e) ==
  LET allo_syntax == _build_allo_syntax_for_mapping(e)
  IN IF h.state_tying_conversion /\ Str(allo_syntax) # EPS
          /\ allo_syntax \in DOMAIN h.allo_map
       THEN [e EXCEPT !.label = Num(h.allo_map[allo_syntax])]
       ELSE [e EXCEPT !.label = Str(allo_syntax)]

\* Hmm.run from "add loops" to the sort
HmmFinishEdges(h, n, es) ==
  LET looped == HmmAddLoops(es, 1, n)
  IN Sort([i \in 1..Len(looped) |-> HmmTieLabel(h, looped[i])])

\* the loop after the iterations r = RepairScan(...) of it
RepairRest(r, Rest(_, _)) == IF r.swapped THEN Rest(r.edges, r.sort_idx) ELSE r.edges

RECURSIVE RepairAll(_, _)
\* "while sort_idx < len(self.fsa.edges)" from sort_idx idx to its end
RepairAll(es, idx) ==
  LET r == RepairScan(es, idx)
  IN RepairRest(r, RepairAll)

\* Hmm.run from "sort_idx = 0" to the sort; g = [num_states, edges]
HmmExpanded(h, g) ==
  LET repaired == RepairAll(g.edges, 0)
  IN [num_states |-> g.num_states, edges |-> HmmFinishEdges(h, g.num_states, repaired)]

\* Hmm.run from the allophone expansion to the sort; g = [num_states, edges]
HmmCreated(h, g) ==
  LET a == HmmAlloExpand(h, g.num_states, g.edges)
  IN HmmExpanded(h, a)

\* a whole Hmm.run up to the finalisation, started with the working fields n, es
\* and with every word found in the lexicon
HmmBuild(h, lems, n, es) ==
  LET g == HmmCreateStates(h, lems, n, es)
  IN HmmCreated(h, g)

(***************************************************************************)
(* Finalisation of the three run methods.                                  *)
(***************************************************************************)
\* a variant of the end of Asg.run below that leaves the working fields as they are
AsgFinalizeKeep(g) ==
  [out_num_states |-> g.num_states, out_edges |-> g.edges,
   num_states |-> g.num_states, edges |-> g.edges]

\* a variant of the end of Hmm.run below that leaves the working fields as they are
HmmFinalizeKeep(n, es) ==
  [out_num_states |-> n, out_edges |-> es, num_states |-> n, edges |-> es]

\* Asg.run, "self.fsa.num_states_asg = ..." to "self.fsa.edges = []"
AsgFinalize(g) ==
  [out_num_states |-> g.num_states, out_edges |-> g.edges,
   num_states |-> Unset, edges |-> <<>>]

\* Ctc.run, "self.fsa.num_states_ctc = ..." to "self.fsa.edges = []"
CtcFinalize(g) ==
  [out_num_states |-> g.num_states, out_edges |-> g.edges,
   num_states |-> Unset, edges |-> <<>>]

\* Hmm.run, "self.fsa.num_states_hmm = ..." to "self.fsa.edges = []"
HmmFinalize(n, es) ==
  [out_num_states |-> n, out_edges |-> es, num_states |-> Unset, edges |-> <<>>]

(***************************************************************************)
(* class BuildSimpleFsaOp                                                  *)
(*                                                                         *)
(* A state model is the record of its name and its parameters; the scores  *)
(* are integers, and twice_score is even so that 0.5 * twice_score is one. *)
(* An edge is the tuple (from, to, label, length_model, b); the edge       *)
(* matrix is the list of its columns.                                      *)
(***************************************************************************)
\* self.state_models.get(label, ('default', 0, 0.0))
StateModelOf(models, label) ==
  IF label \in DOMAIN models THEN models[label]
  ELSE [name |-> "default", lm |-> <<0>>, scores |-> <<0>>]

\* the body of "for l in range(labels.shape[0])" for the label of row l and
\* column b; st = [cur_state, edges, weights]
SimpleFsaLabel(models, st, label, b) ==
  LET m == StateModelOf(models, label)
      c == st.cur_state
  IN IF label < 0 THEN st
     ELSE IF m.name = "default"
       THEN [cur_state |-> c + 1,
             edges |-> Append(st.edges, <<c, c + 1, label, m.lm[1], b>>),
             weights |-> Append(st.weights, m.scores[1])]
     ELSE IF m.name = "loop"
       THEN [cur_state |-> c + 1,
             edges |-> st.edges \o <<<<c, c, label, m.lm[1], b>>,
                                     <<c, c + 1, label, m.lm[1], b>>>>,
             weights |-> st.weights \o <<m.scores[2], m.scores[1]>>]
     ELSE IF m.name = "double"
       THEN [cur_state |-> c + 2,
             edges |-> st.edges \o <<<<c, c + 2, label, m.lm[1], b>>,
                                     <<c, c + 1, label, m.lm[2], b>>,
                                     <<c + 1, c + 2, label, m.lm[3], b>>>>,
             weights |-> st.weights \o <<m.scores[1], m.scores[2] \div 2,
                                         m.scores[2] \div 2>>]
     ELSE st

RECURSIVE SimpleFsaColumn(_, _, _, _, _)
\* "for l in range(labels.shape[0])" from row l (1-based) of the column col
SimpleFsaColumn(models, st, col, l, b) ==
  IF l > Len(col) THEN st
  ELSE SimpleFsaColumn(models, SimpleFsaLabel(models, st, col[l], b), col, l + 1, b)

RECURSIVE SimpleFsaBatch(_, _, _, _)
\* "for b in range(labels.shape[1])" from column b (0-based);
\* g = [cur_state, edges, weights, start_end_states]
SimpleFsaBatch(models, lab, b, g) ==
  IF b >= Len(lab) THEN g
  ELSE LET st == SimpleFsaColumn(models,
                   [cur_state |-> g.cur_state, edges |-> g.edges, weights |-> g.weights],
                   lab[b + 1], 1, b)
       IN SimpleFsaBatch(models, lab, b + 1,
            [cur_state |-> st.cur_state + 1, edges |-> st.edges, weights |-> st.weights,
             start_end_states |-> Append(g.start_end_states, <<g.cur_state, st.cur_state>>)])

\* the lists perform has generated when it reaches the sort
SimpleFsaGenerated(models, lab) ==
  SimpleFsaBatch(models, lab, 0,
    [cur_state |-> 0, edges |-> <<>>, weights |-> <<>>, start_end_states |-> <<>>])

\* sorted(edges, key=lambda e: e[1] - e[0]): stable
SortByLength(es) == SortSeq(es, LAMBDA x, y: x[2] - x[1] < y[2] - y[1])

\* BuildSimpleFsaOp.perform: the three outputs
perform(models, lab) ==
  LET g == SimpleFsaGenerated(models, lab)
  IN [edges |-> SortByLength(g.edges), weights |-> g.weights,
      start_end_states |-> g.start_end_states]

(***************************************************************************)
(* class FastBwFsaShared                                                   *)
(*                                                                         *)
(* The object is the record of its two attributes; an emission index is an *)
(* int label; the matrices the getters return are the lists of their       *)
(* columns.                                                                *)
(***************************************************************************)
\* FastBwFsaShared.__init__
FastBwFsaSharedNew == [num_states |-> 1, edges |-> <<>>]

\* max(a, b, c)
Max3(a, b, c) == IF a >= b /\ a >= c THEN a ELSE IF b >= c THEN b ELSE c

\* a variant of the method below that leaves num_states as it is
add_edge_same_states(self, source_state_idx, target_state_idx, emission_idx, weight) ==
  [self EXCEPT
     !.edges = Append(self.edges,
                 Edge(source_state_idx, target_state_idx, Num(emission_idx), weight))]

\* FastBwFsaShared.add_edge
add_edge(self, source_state_idx, target_state_idx, emission_idx, weight) ==
  [num_states |-> Max3(self.num_states, source_state_idx + 1, target_state_idx + 1),
   edges |-> Append(self.edges,
               Edge(source_state_idx, target_state_idx, Num(emission_idx), weight))]

RECURSIVE AddInfLoopFrom(_, _, _, _)
\* "for emission_idx in range(num_emission_labels)" from emission_idx on
AddInfLoopFrom(self, state_idx, emission_idx, num_emission_labels) ==
  IF emission_idx >= num_emission_labels THEN self
  ELSE AddInfLoopFrom(add_edge(self, state_idx, state_idx, emission_idx, 0),
                      state_idx, emission_idx + 1, num_emission_labels)

\* FastBwFsaShared.add_inf_loop
add_inf_loop(self, state_idx, num_emission_labels) ==
  AddInfLoopFrom(self, state_idx, 0, num_emission_labels)

\* FastBwFsaShared.get_num_edges
get_num_edges(self, n_batch) == Len(self.edges) * n_batch

\* FastBwFsaShared.get_edges: column batch_idx * num_edges + edge_idx, 0-based,
\* is the column i = batch_idx * num_edges + edge_idx + 1 of the list
get_edges(self, n_batch) ==
  [i \in 1..(Len(self.edges) * n_batch) |->
     LET batch_idx == (i - 1) \div Len(self.edges)
         edge == self.edges[((i - 1) % Len(self.edges)) + 1]
     IN <<edge.source_state_idx + batch_idx * self.num_states,
          edge.target_state_idx + batch_idx * self.num_states,
          edge.label.n,
          batch_idx>>]

\* FastBwFsaShared.get_weights
get_weights(self, n_batch) ==
  [i \in 1..(Len(self.edges) * n_batch) |->
     self.edges[((i - 1) % Len(self.edges)) + 1].weight]

\* FastBwFsaShared.get_start_end_states
get_start_end_states(self, n_batch) ==
  [b \in 1..n_batch |->
     <<0 + (b - 1) * self.num_states, (self.num_states - 1) + (b - 1) * self.num_states>>]

\* FastBwFsaShared.get_fast_bw_fsa
get_fast_bw_fsa(self, n_batch) ==
  [edges |-> get_edges(self, n_batch),
   weights |-> get_weights(self, n_batch),
   start_end_states |-> get_start_end_states(self, n_batch)]

(***************************************************************************)
(* Inputs and collaborators the model is run with.                         *)
(***************************************************************************)
Alphabet == {97, 98}
InputChars == {32, 65, 97, 98}

RECURSIVE Sentences(_)
\* the lists of non-empty words over Alphabet with at most k labels in total
Sentences(k) ==
  {<<>>} \cup
  UNION {UNION {{<<w>> \o s : s \in Sentences(k - n)} : w \in [1..n -> Alphabet]}
           : n \in 1..k}

InputStrings(k) == UNION {[1..n -> InputChars] : n \in 1..k}

\* the arguments Graph is constructed with: sentences as str and as list
Inputs(k) ==
  {PyStr(x) : x \in InputStrings(k)} \cup {PyList(l) : l \in Sentences(k) \ {<<>>}}

\* pronunciations with 1, 2 and 3 phonemes: "p", "p q", "q r p"
Pron(len) == IF len = 1 THEN <<112>>
             ELSE IF len = 2 THEN <<112, 32, 113>>
             ELSE <<113, 32, 114, 32, 112>>

\* the variant list of a word whose variants have the phoneme counts of shape
Variants(shape) == [i \in 1..Len(shape) |-> [score |-> i, phon |-> Pron(shape[i])]]

\* a lexicon with the words "a" and "b"
LexAB(shape_a, shape_b) ==
  [w \in {<<97>>, <<98>>} |-> IF w = <<97>> THEN Variants(shape_a) ELSE Variants(shape_b)]

\* a lexicon with the word "a" alone
LexA(shape_a) == [w \in {<<97>>} |-> Variants(shape_a)]

Lexicons ==
  {LexAB(<<1>>, <<1, 2>>), LexAB(<<2, 1>>, <<2>>), LexAB(<<2, 3>>, <<1, 1>>), LexA(<<2, 2, 1>>)}

\* a state tying map: "[SILENCE]{#+#}.0" -> 0, "p{#+#}@i@f" -> 1, "p{#+q}@i" -> 2
AlloMap ==
  [k \in {SilenceToken \o <<123, 35, 43, 35, 125, 46, 48>>,
          <<112, 123, 35, 43, 35, 125, 64, 105, 64, 102>>,
          <<112, 123, 35, 43, 113, 125, 64, 105>>} |->
     IF k[1] = 91 THEN 0 ELSE IF Len(k) = 10 THEN 1 ELSE 2]

\* a StateTying map that has the epsilon symbol among its keys
AlloMapEps == AlloMap @@ (<<42>> :> 3)

(***************************************************************************)
(* The state machine.                                                      *)
(***************************************************************************)
\* the state after Graph.__init__ on an input of Ins, with the builder objects
\* of As, Cs and Hs (NoAsg, NoCtc, NoHmm: not constructed yet); the model is
\* run on non-empty sentences
InitWith(Ins, As, Cs, Hs) ==
  /\ \E lemma \in Ins : lem_list = GraphLemList(lemma) /\ lem_list # <<>>
  /\ num_states = Unset /\ edges = <<>>
  /\ num_states_asg = Unset /\ edges_asg = <<>>
  /\ num_states_ctc = Unset /\ edges_ctc = <<>>
  /\ num_states_hmm = Unset /\ edges_hmm = <<>>
  /\ asg \in As /\ ctc \in Cs /\ hmm \in Hs
  /\ pc = "idle" /\ sort_idx = 0 /\ raised = 0 /\ edges_single_state = <<>> /\ OpsUnused

\* asg = Asg(fsa, num_labels, asg_repetition, label_conversion)
AsgInit(Ls, Rs, Cvs) ==
  /\ pc = "idle" /\ ~asg.built
  /\ \E l \in Ls, r \in Rs, cv \in Cvs : asg' = AsgNew(l, r, cv)
  /\ UNCHANGED <<op_vars, lem_list, edges_single_state, num_states, edges, graph_out, ctc, hmm, pc, sort_idx, raised>>

\* asg.separator = b
AsgSetSeparator ==
  /\ pc = "idle" /\ asg.built /\ num_states_asg = Unset
  /\ \E b \in BOOLEAN : asg' = [asg EXCEPT !.separator = b]
  /\ UNCHANGED <<op_vars, lem_list, edges_single_state, num_states, edges, graph_out, ctc, hmm, pc, sort_idx, raised>>

\* asg.run()
AsgRun ==
  /\ pc = "idle" /\ asg.built
  /\ LET f == AsgFinalize(AsgBuild(asg, lem_list, edges))
     IN /\ num_states_asg' = f.out_num_states
        /\ edges_asg' = f.out_edges
        /\ num_states' = f.num_states
        /\ edges' = f.edges
  /\ UNCHANGED <<op_vars, lem_list, edges_single_state, num_states_ctc, edges_ctc, num_states_hmm, edges_hmm,
                 asg, ctc, hmm, pc, sort_idx, raised>>

\* ctc = Ctc(fsa, num_labels, label_conversion)
CtcInit(Ls, Cvs) ==
  /\ pc = "idle" /\ ~ctc.built
  /\ \E l \in Ls, cv \in Cvs : ctc' = CtcNew(l, cv)
  /\ UNCHANGED <<op_vars, lem_list, edges_single_state, num_states, edges, graph_out, asg, hmm, pc, sort_idx, raised>>

\* ctc.run()
CtcRun ==
  /\ pc = "idle" /\ ctc.built /\ ctc.runs < MaxCtcRuns
  /\ LET g == CtcBuild(ctc, lem_list, edges)
         f == CtcFinalize(g)
     IN /\ num_states_ctc' = f.out_num_states
        /\ edges_ctc' = f.out_edges
        /\ num_states' = f.num_states
        /\ edges' = f.edges
        /\ ctc' = [ctc EXCEPT !.final_states = g.final_states, !.runs = ctc.runs + 1]
  /\ UNCHANGED <<op_vars, lem_list, edges_single_state, num_states_asg, edges_asg, num_states_hmm, edges_hmm,
                 asg, hmm, pc, sort_idx, raised>>

\* hmm = Hmm(fsa, depth, allo_num_states, state_tying_conversion) with its
\* lexicon and state tying
HmmInit(Ds, Ks, Cvs, Lexs) ==
  /\ pc = "idle" /\ ~hmm.built
  /\ \E d \in Ds, k \in Ks, cv \in Cvs, lx \in Lexs : hmm' = HmmNew(d, k, cv, lx, AlloMap)
  /\ UNCHANGED <<op_vars, lem_list, edges_single_state, num_states, edges, graph_out, asg, ctc, pc, sort_idx, raised>>

\* hmm.run() from its start to "final node", every word found in the lexicon
HmmStart ==
  /\ pc = "idle" /\ hmm.built
  /\ LET g == HmmCreateStates(hmm, lem_list, num_states, edges)
     IN /\ g.ok
        /\ num_states' = g.num_states
        /\ edges' = g.edges
  /\ num_states_hmm' = 0
  /\ pc' = "allo"
  /\ UNCHANGED <<op_vars, lem_list, edges_single_state, num_states_asg, edges_asg, num_states_ctc, edges_ctc,
                 edges_hmm, asg, ctc, hmm, sort_idx, raised>>

\* hmm.run() that ends with the KeyError of the lexicon lookup of a word
HmmRaise ==
  /\ pc = "idle" /\ hmm.built /\ raised < MaxRaised
  /\ LET g == HmmCreateStates(hmm, lem_list, num_states, edges)
     IN /\ ~g.ok
        /\ num_states' = g.num_states
        /\ edges' = g.edges
  /\ num_states_hmm' = 0
  /\ raised' = raised + 1
  /\ UNCHANGED <<op_vars, lem_list, edges_single_state, num_states_asg, edges_asg, num_states_ctc, edges_ctc,
                 edges_hmm, asg, ctc, hmm, pc, sort_idx>>

\* the allophone expansion and "sort_idx = 0"
HmmAllo ==
  /\ pc = "allo"
  /\ LET g == HmmAlloExpand(hmm, num_states, edges)
     IN /\ num_states' = g.num_states
        /\ edges' = g.edges
  /\ sort_idx' = 0
  /\ pc' = "repair"
  /\ UNCHANGED <<op_vars, lem_list, edges_single_state, graph_out, asg, ctc, hmm, raised>>

\* the renumbering loop up to and including its next swap
HmmRepairSwap ==
  /\ pc = "repair"
  /\ LET r == RepairScan(edges, sort_idx)
     IN /\ r.swapped
        /\ edges' = r.edges
        /\ sort_idx' = r.sort_idx
  /\ UNCHANGED <<op_vars, lem_list, edges_single_state, num_states, graph_out, asg, ctc, hmm, pc, raised>>

\* the renumbering loop reaches the end of the edge list
HmmRepairEnd ==
  /\ pc = "repair"
  /\ LET r == RepairScan(edges, sort_idx)
     IN /\ ~r.swapped
        /\ sort_idx' = r.sort_idx
  /\ pc' = "loops"
  /\ UNCHANGED <<op_vars, lem_list, edges_single_state, num_states, edges, graph_out, asg, ctc, hmm, raised>>

\* hmm.run() from "add loops" to its end
HmmFinish ==
  /\ pc = "loops"
  /\ LET f == HmmFinalize(num_states, HmmFinishEdges(hmm, num_states, edges))
     IN /\ num_states_hmm' = f.out_num_states
        /\ edges_hmm' = f.out_edges
        /\ num_states' = f.num_states
        /\ edges' = f.edges
  /\ sort_idx' = 0
  /\ pc' = "idle"
  /\ UNCHANGED <<op_vars, lem_list, edges_single_state, num_states_asg, edges_asg, num_states_ctc, edges_ctc,
                 asg, ctc, hmm, raised>>

HmmRun == HmmStart \/ HmmRaise \/ HmmAllo \/ HmmRepairSwap \/ HmmRepairEnd \/ HmmFinish

(***************************************************************************)
(* Spec: one Graph and one builder object of each class, constructed with  *)
(* the default num_labels and asg_repetition, run in any order.            *)
(***************************************************************************)
AsgObjects(Rs, Cvs) ==
  {[AsgNew(256, r, cv) EXCEPT !.separator = b] : r \in Rs, cv \in Cvs, b \in BOOLEAN}

HmmObjects(Ks, Cvs, Lexs) ==
  {HmmNew(6, k, cv, lx, AlloMap) : k \in Ks, cv \in Cvs, lx \in Lexs}

Init ==
  InitWith(Inputs(MaxMixed), AsgObjects({2}, {FALSE}), {CtcNew(256, FALSE)},
           HmmObjects({1}, {FALSE}, {LexAB(<<1>>, <<1, 2>>), LexAB(<<2, 1>>, <<2>>)}))

Next == AsgRun \/ CtcRun \/ HmmRun

Spec == Init /\ [][Next]_vars

(***************************************************************************)
(* SpecAsg: the Asg builder alone, on every sentence of up to MaxLabels    *)
(* labels, with and without separator and label conversion.                *)
(***************************************************************************)
InitAsg ==
  InitWith(Inputs(MaxLabels), {AsgNew(256, r, cv) : r \in {2, 3}, cv \in BOOLEAN},
           {NoCtc}, {NoHmm})

NextAsg == AsgSetSeparator \/ AsgRun

SpecAsg == InitAsg /\ [][NextAsg]_vars

(***************************************************************************)
(* SpecCtc: the Ctc builder alone, run up to MaxCtcRuns times.             *)
(***************************************************************************)
InitCtc ==
  InitWith(Inputs(MaxLabels), {NoAsg}, {CtcNew(256, cv) : cv \in BOOLEAN}, {NoHmm})

NextCtc == CtcRun

SpecCtc == InitCtc /\ [][NextCtc]_vars

(***************************************************************************)
(* SpecHmm: the Hmm builder alone, on sentences of the words "a" and "b",  *)
(* with 1..MaxAllo allophone states and lexicons of single-variant and     *)
(* multi-variant words.                                                    *)
(***************************************************************************)
WordLists(k) == UNION {[1..n -> {<<97>>, <<98>>}] : n \in 1..k}

InitHmm ==
  InitWith({PyList(l) : l \in WordLists(MaxWords)}, {NoAsg}, {NoCtc},
           HmmObjects(1..MaxAllo, BOOLEAN, Lexicons))

NextHmm == HmmRun

SpecHmm == InitHmm /\ [][NextHmm]_vars

(***************************************************************************)
(* SpecRepair: the renumbering loop of Hmm.run on a working edge list that *)
(* the caller put into Graph.edges: on a Graph of the empty sentence with  *)
(* allo_num_states = 1, Hmm.run reaches "sort_idx = 0" with that list.     *)
(***************************************************************************)
RepairNodes == 0..MaxNode

\* the i-th edge of a synthetic list: its label tells its position
RepairEdge(p, i) == Edge(p[1], p[2], Str(<<96 + i>>), 0)

\* the pairs (source, target) of a synthetic edge: no self-loops
RepairPairs == {p \in RepairNodes \X RepairNodes : p[1] # p[2]}

RECURSIVE Reach(_, _, _)
\* the states reached from the states of S along edges of es in at most k steps
Reach(es, S, k) ==
  IF k = 0 THEN S
  ELSE Reach(es, S \cup {es[i].target_state_idx :
                            i \in {j \in 1..Len(es) : es[j].source_state_idx \in S}},
             k - 1)

\* no path of at least one edge leads from a state back to itself
Acyclic(es) ==
  \A i \in 1..Len(es) :
     es[i].source_state_idx \notin Reach(es, {es[i].target_state_idx}, Len(es))

InitRepair ==
  /\ lem_list = <<>>
  /\ \E n \in 1..MaxEdges : \E l \in [1..n -> RepairPairs] :
        /\ edges = [i \in 1..n |-> RepairEdge(l[i], i)]
        /\ Acyclic(edges)
  /\ num_states = MaxNode + 1
  /\ num_states_asg = Unset /\ edges_asg = <<>>
  /\ num_states_ctc = Unset /\ edges_ctc = <<>>
  /\ num_states_hmm = 0 /\ edges_hmm = <<>>
  /\ asg = NoAsg /\ ctc = NoCtc
  /\ hmm \in HmmObjects({1}, {FALSE}, {LexA(<<1>>)})
  /\ pc = "repair" /\ sort_idx = 0 /\ raised = 0 /\ edges_single_state = <<>> /\ OpsUnused

NextRepair == HmmRepairSwap \/ HmmRepairEnd

SpecRepair == InitRepair /\ [][NextRepair]_vars

(***************************************************************************)
(* SpecConfig: the construction of the builder objects, with arguments in  *)
(* and out of the documented ranges, followed by their runs.               *)
(***************************************************************************)
InitConfig == InitWith(Inputs(MaxMixed), {NoAsg}, {NoCtc}, {NoHmm})

NextConfig ==
  \/ AsgInit({0, 256}, {1, 2}, {FALSE})
  \/ CtcInit({0, 256}, {FALSE})
  \/ HmmInit({6}, {0, 1}, {FALSE}, {LexAB(<<1>>, <<1, 2>>)})
  \/ AsgRun \/ CtcRun \/ HmmRun

SpecConfig == InitConfig /\ [][NextConfig]_vars

\* One Graph and one builder object, of any of the three classes, with its
\* label conversion on or off; the separator of ASG is switched on at any time.
InitConv ==
  \/ InitWith(Inputs(MaxConv), {AsgNew(256, 2, cv) : cv \in BOOLEAN}, {NoCtc}, {NoHmm})
  \/ InitWith(Inputs(MaxConv), {NoAsg}, {CtcNew(256, cv) : cv \in BOOLEAN}, {NoHmm})
  \/ InitWith(Inputs(MaxConv), {NoAsg}, {NoCtc},
              HmmObjects({1, 2}, BOOLEAN, {LexAB(<<1>>, <<1, 2>>), LexAB(<<2, 1>>, <<2>>)}))

NextConv == AsgSetSeparator \/ AsgRun \/ CtcRun \/ HmmRun

SpecConv == InitConv /\ [][NextConv]_vars

\* The renumbering loop is sequential code: whenever it can take a step it
\* takes one.
SpecRepairFair == InitRepair /\ [][NextRepair]_vars /\ WF_vars(NextRepair)

(***************************************************************************)
(* SpecStatic: the static functions Store.label_conversion and             *)
(* Graph.make_single_state_graph, called on a num_states and an edge list  *)
(* the caller holds in a Graph.                                            *)
(***************************************************************************)
\* labels of the caller's edges: the characters '!', '%', '*', '_', 'a' and
\* the integers 0 and 300
StaticLabels == {Str(<<c>>) : c \in {33, 37, 42, 95, 97}} \cup {Num(0), Num(300)}

\* the caller's edges
StaticEdges == {Edge(0, 1, l, 0) : l \in StaticLabels} \cup {Edge(2, 1, l, 1) : l \in StaticLabels}

\* Store.label_conversion(edges): the labels are written in place
StoreLabelConversion ==
  /\ pc = "static"
  /\ edges' = label_conversion(edges)
  /\ pc' = "converted"
  /\ UNCHANGED <<op_vars, lem_list, edges_single_state, num_states, graph_out, asg, ctc, hmm,
                 sort_idx, raised>>

\* edges_single_state = Graph.make_single_state_graph(num_states, edges)
MakeSingleStateGraph ==
  /\ pc \in {"static", "converted"}
  /\ LET r == make_single_state_graph(num_states, edges)
     IN /\ edges' = r.edges
        /\ edges_single_state' = r.edges_single_state
  /\ pc' = "single"
  /\ UNCHANGED <<op_vars, lem_list, num_states, graph_out, asg, ctc, hmm, sort_idx, raised>>

InitStatic ==
  /\ lem_list = <<>>
  /\ \E n \in 1..MaxStatic : edges \in [1..n -> StaticEdges]
  /\ num_states \in {Unset, 1, 2}
  /\ num_states_asg = Unset /\ edges_asg = <<>>
  /\ num_states_ctc = Unset /\ edges_ctc = <<>>
  /\ num_states_hmm = Unset /\ edges_hmm = <<>>
  /\ asg = NoAsg /\ ctc = NoCtc /\ hmm = NoHmm
  /\ pc = "static" /\ sort_idx = 0 /\ raised = 0 /\ edges_single_state = <<>> /\ OpsUnused

NextStatic == StoreLabelConversion \/ MakeSingleStateGraph

SpecStatic == InitStatic /\ [][NextStatic]_vars

(***************************************************************************)
(* SpecAsgLoop: the Asg builder alone, on the sentences of SpecAsg and on  *)
(* sentences whose characters include the epsilon and silence symbols.     *)
(***************************************************************************)
SymAlphabet == {97, 42, 95}

RECURSIVE SymSentences(_)
\* the lists of non-empty words over SymAlphabet with at most k labels in total
SymSentences(k) ==
  {<<>>} \cup
  UNION {UNION {{<<w>> \o s : s \in SymSentences(k - n)} : w \in [1..n -> SymAlphabet]}
           : n \in 1..k}

InitAsgLoop ==
  InitWith({PyList(l) : l \in (Sentences(MaxLabels) \cup SymSentences(MaxSym)) \ {<<>>}},
           {AsgNew(256, 2, cv) : cv \in BOOLEAN}, {NoCtc}, {NoHmm})

NextAsgLoop == AsgSetSeparator \/ AsgRun

SpecAsgLoop == InitAsgLoop /\ [][NextAsgLoop]_vars

(***************************************************************************)
(* SpecTying: the Hmm builder alone, with state tying maps with and        *)
(* without the epsilon symbol as a key, and a lexicon that lacks a word.   *)
(***************************************************************************)
InitTying ==
  InitWith({PyList(l) : l \in WordLists(MaxWords)}, {NoAsg}, {NoCtc},
           {HmmNew(6, k, cv, lx, m) : k \in {1, 2}, cv \in BOOLEAN,
                                      lx \in {LexAB(<<1>>, <<1, 2>>), LexA(<<2, 1>>)},
                                      m \in {AlloMap, AlloMapEps}})

NextTying == HmmRun

SpecTying == InitTying /\ [][NextTying]_vars

(***************************************************************************)
(* SpecSimpleFsa: BuildSimpleFsaOp.perform on label matrices of up to      *)
(* MaxRows x MaxBatch labels -1, 0, 1, with every assignment of the state  *)
(* models to the labels 0 and 1.                                           *)
(***************************************************************************)
\* no Graph is in use
GraphUnused ==
  /\ lem_list = <<>> /\ num_states = Unset /\ edges = <<>>
  /\ num_states_asg = Unset /\ edges_asg = <<>>
  /\ num_states_ctc = Unset /\ edges_ctc = <<>>
  /\ num_states_hmm = Unset /\ edges_hmm = <<>>
  /\ asg = NoAsg /\ ctc = NoCtc /\ hmm = NoHmm
  /\ pc = "op" /\ sort_idx = 0 /\ raised = 0 /\ edges_single_state = <<>>

\* ('default', 1, 5.0), ('loop', 0, 2.0, 3.0), ('double', 0, 1, 2, 1.0, 4.0)
StateModels ==
  {[name |-> "default", lm |-> <<1>>, scores |-> <<5>>],
   [name |-> "loop", lm |-> <<0>>, scores |-> <<2, 3>>],
   [name |-> "double", lm |-> <<0, 1, 2>>, scores |-> <<1, 4>>]}

LabelMatrices ==
  UNION {[1..nb -> [1..nr -> {-1, 0, 1}]] : nb \in 1..MaxBatch, nr \in 1..MaxRows}

InitSimpleFsa ==
  /\ GraphUnused
  /\ state_models \in UNION {[D -> StateModels] : D \in SUBSET {0, 1}}
  /\ labels \in LabelMatrices
  /\ output_storage = <<>> /\ fsa_shared = <<>> /\ fast_bw_fsa = <<>>

\* op.perform(node, [labels], output_storage)
Perform ==
  /\ pc = "op" /\ output_storage = <<>>
  /\ output_storage' = perform(state_models, labels)
  /\ UNCHANGED <<graph_vars, state_models, labels, fsa_shared, fast_bw_fsa>>

NextSimpleFsa == Perform

SpecSimpleFsa == InitSimpleFsa /\ [][NextSimpleFsa]_vars

(***************************************************************************)
(* SpecShared: one FastBwFsaShared object, up to MaxShared edges added by  *)
(* add_edge and add_inf_loop in any order, and the getters called with any *)
(* n_batch of 1..MaxBatch at any time.                                     *)
(***************************************************************************)
InitShared ==
  /\ GraphUnused
  /\ state_models = <<>> /\ labels = <<>> /\ output_storage = <<>>
  /\ fsa_shared = FastBwFsaSharedNew
  /\ fast_bw_fsa = <<>>

\* fsa.add_edge(source_state_idx, target_state_idx, emission_idx, weight)
AddEdge ==
  /\ pc = "op" /\ Len(fsa_shared.edges) < MaxShared
  /\ \E s \in 0..2, t \in 0..2, e \in {0, 1} :
        fsa_shared' = add_edge(fsa_shared, s, t, e, e)
  /\ UNCHANGED <<graph_vars, state_models, labels, output_storage, fast_bw_fsa>>

\* fsa.add_inf_loop(state_idx, num_emission_labels)
AddInfLoop ==
  /\ pc = "op"
  /\ \E s \in 0..2, n \in 0..2 :
        /\ Len(fsa_shared.edges) + n <= MaxShared
        /\ fsa_shared' = add_inf_loop(fsa_shared, s, n)
  /\ UNCHANGED <<graph_vars, state_models, labels, output_storage, fast_bw_fsa>>

\* fsa.get_num_edges(n_batch) and fsa.get_fast_bw_fsa(n_batch)
GetFastBwFsa ==
  /\ pc = "op"
  /\ \E n_batch \in 1..MaxBatch :
        fast_bw_fsa' = [n_batch |-> n_batch,
                        num_edges |-> get_num_edges(fsa_shared, n_batch),
                        fsa |-> get_fast_bw_fsa(fsa_shared, n_batch)]
  /\ UNCHANGED <<graph_vars, state_models, labels, output_storage, fsa_shared>>

NextShared == AddEdge \/ AddInfLoop \/ GetFastBwFsa

SpecShared == InitShared /\ [][NextShared]_vars

(***************************************************************************)
(* Properties.                                                             *)
(***************************************************************************)
\* the state indices the edges of es use
StatesOf(es) ==
  {es[i].source_state_idx : i \in 1..Len(es)} \cup {es[i].target_state_idx : i \in 1..Len(es)}

\* es has an edge from s to t with the label l
HasEdge(es, s, t, l) ==
  \E k \in 1..Len(es) : /\ es[k].source_state_idx = s
                        /\ es[k].target_state_idx = t
                        /\ es[k].label = l

\* C1: after a successful run the finalized state count of a topology is one
\* plus the largest state index of its finalized edges, and every index from 0
\* to the count - 1 is the source or the target of an edge
C1_StateCountMatchesEdges ==
  /\ num_states_asg # Unset => StatesOf(edges_asg) = 0..(num_states_asg - 1)
  /\ num_states_ctc # Unset => StatesOf(edges_ctc) = 0..(num_states_ctc - 1)
  /\ (pc = "idle" /\ num_states_hmm > 0) => StatesOf(edges_hmm) = 0..(num_states_hmm - 1)

\* the step of Hmm.run from "add loops" to its end
HmmFinishStep == pc = "loops" /\ pc' = "idle"

\* C2: Hmm.run ends with source <= target in every edge of edges_hmm, and
\* source = target only in the edges added by the loop synthesis: before "add
\* loops" every edge has source < target, and edges_hmm has as many edges with
\* source # target as there were edges then
C2_HmmMonotonic ==
  [][HmmFinishStep =>
       /\ \A i \in 1..Len(edges) : edges[i].source_state_idx < edges[i].target_state_idx
       /\ \A i \in 1..Len(edges_hmm') :
            edges_hmm'[i].source_state_idx <= edges_hmm'[i].target_state_idx
       /\ Cardinality({i \in 1..Len(edges_hmm') :
            edges_hmm'[i].source_state_idx # edges_hmm'[i].target_state_idx}) = Len(edges)]_vars

\* Hmm.run has ended on a sentence of two or more words, the first with several
\* variants, with two or more allophone states, and edges_hmm has a self-loop
C2_Witness ==
  /\ pc = "idle" /\ num_states_hmm > 0
  /\ hmm.allo_num_states >= 2
  /\ Len(lem_list) >= 2
  /\ Len(hmm.lexicon[lem_list[1]]) >= 2
  /\ \E i \in 1..Len(edges_hmm) :
       edges_hmm[i].source_state_idx = edges_hmm[i].target_state_idx

\* C3: the renumbering pass, on an acyclic list without self-loops, ends with
\* no edge that has source > target
C3_RepairRemovesInversions ==
  pc = "loops" =>
    \A i \in 1..Len(edges) : edges[i].source_state_idx <= edges[i].target_state_idx

\* the state number n after the exchange of a and b
Exchanged(n, a, b) == IF n = a THEN b ELSE IF n = b THEN a ELSE n

\* es with the state numbers a and b exchanged in every edge
Renamed(es, a, b) ==
  [i \in 1..Len(es) |->
     [es[i] EXCEPT !.source_state_idx = Exchanged(@, a, b),
                   !.target_state_idx = Exchanged(@, a, b)]]

\* C4: each swap of the renumbering pass exchanges two state numbers in use in
\* every edge and changes nothing else (the positions, the number of edges, the
\* labels, the weights and the set of state numbers stay), and the end of the
\* pass leaves the list as it is; so the pass renames by a permutation
C4_RepairRenames ==
  [][/\ (pc = "repair" /\ pc' = "repair") =>
          /\ \E a, b \in StatesOf(edges) : a # b /\ edges' = Renamed(edges, a, b)
          /\ StatesOf(edges') = StatesOf(edges)
     /\ (pc = "repair" /\ pc' = "loops") => edges' = edges]_vars

\* the renumbering pass has made a swap on a list of two or more edges
C4_Witness == pc = "repair" /\ sort_idx = RestartIdx /\ Len(edges) >= 2

\* C5: between builder runs, after any sequence of successful runs, the
\* working fields are unset: num_states = -1 and edges = []
C5_WorkingFieldsCleared ==
  (pc = "idle" /\ raised = 0) => (num_states = Unset /\ edges = <<>>)

\* the three builders have run with success
C5_Witness ==
  /\ pc = "idle" /\ raised = 0
  /\ num_states_asg # Unset /\ num_states_ctc # Unset /\ num_states_hmm > 0

\* the finalized fields of a topology that has been built are those of a run of
\* its builder, with the parameters of the object, on the Graph as constructed
FreshResults ==
  /\ num_states_asg # Unset =>
       [num_states |-> num_states_asg, edges |-> edges_asg] = AsgBuild(asg, lem_list, <<>>)
  /\ ctc.runs = 1 =>
       /\ num_states_ctc = CtcBuild(CtcNew(ctc.num_labels, ctc.label_conversion),
                                    lem_list, <<>>).num_states
       /\ edges_ctc = CtcBuild(CtcNew(ctc.num_labels, ctc.label_conversion),
                               lem_list, <<>>).edges
  /\ (pc = "idle" /\ num_states_hmm > 0) =>
       [num_states |-> num_states_hmm, edges |-> edges_hmm]
         = HmmBuild(hmm, lem_list, Unset, <<>>)

\* a step changes the finalized fields of one topology at most
OneTopologyChanges ==
  /\ <<num_states_asg, edges_asg>>' # <<num_states_asg, edges_asg>> =>
       UNCHANGED <<num_states_ctc, edges_ctc, num_states_hmm, edges_hmm>>
  /\ <<num_states_ctc, edges_ctc>>' # <<num_states_ctc, edges_ctc>> =>
       UNCHANGED <<num_states_asg, edges_asg, num_states_hmm, edges_hmm>>
  /\ <<num_states_hmm, edges_hmm>>' # <<num_states_hmm, edges_hmm>> =>
       UNCHANGED <<num_states_asg, edges_asg, num_states_ctc, edges_ctc>>

C7_NoPartialHmm == raised > 0 => (num_states_hmm = Unset /\ edges_hmm = <<>>)

\* C8: no builder object exists with num_labels <= 0, asg_repetition <= 1 or
\* allo_num_states <= 0: its construction raises
C8_BadArgumentsRejected ==
  /\ asg.built => (asg.num_labels > 0 /\ asg.asg_repetition > 1)
  /\ ctc.built => ctc.num_labels > 0
  /\ hmm.built => hmm.allo_num_states > 0

RECURSIVE CtcOffset(_, _)
\* the value of cur_idx at the first label of word w (1-based): the labels and
\* the separators before it
CtcOffset(lems, w) ==
  IF w = 1 THEN 0 ELSE CtcOffset(lems, w - 1) + Len(lems[w - 1]) + 1

\* the label of a finalized CTC edge that emits the character ch
CtcEmit(ch) ==
  IF ctc.label_conversion THEN ConvertLabel(Edge(0, 0, Str(<<ch>>), 0)).label
  ELSE Str(<<ch>>)

\* the label of a finalized CTC blank edge
CtcBlank ==
  IF ctc.label_conversion THEN ConvertLabel(Edge(0, 0, BLANK, 0)).label ELSE BLANK

\* the label at the 0-based position i of word w repeats the one before it
CtcRepeated(w, i) == i >= 1 /\ lem_list[w][i + 1] = lem_list[w][i]

\* C9: in edges_ctc the first label of every word, and every label that differs
\* from the label before it in its word, has its direct edge 2c -> 2c+2
C9_DirectEdges ==
  num_states_ctc # Unset =>
    \A w \in 1..Len(lem_list) : \A i \in 0..(Len(lem_list[w]) - 1) :
       ~CtcRepeated(w, i) =>
          HasEdge(edges_ctc, 2 * (CtcOffset(lem_list, w) + i),
                  2 * (CtcOffset(lem_list, w) + i) + 2, CtcEmit(lem_list[w][i + 1]))

\* what C10 says of the position c of a label ch that repeats the one before it
CtcRepeatPaths(c, ch) ==
  /\ \A k \in 1..Len(edges_ctc) :
       ~(edges_ctc[k].source_state_idx = 2 * c /\ edges_ctc[k].target_state_idx = 2 * c + 2)
  /\ HasEdge(edges_ctc, 2 * c, 2 * c + 1, CtcBlank)
  /\ HasEdge(edges_ctc, 2 * c + 1, 2 * c + 2, CtcEmit(ch))
  /\ \A k \in 1..Len(edges_ctc) :
       (edges_ctc[k].source_state_idx = 2 * c /\ edges_ctc[k].target_state_idx # 2 * c)
         => edges_ctc[k].label = CtcBlank

\* C10: in edges_ctc a label that equals the label before it in its word has no
\* direct edge 2c -> 2c+2, it has the blank edge 2c -> 2c+1 and the repeat edge
\* 2c+1 -> 2c+2, and every edge that leaves 2c for another state is a blank edge
C10_NoDirectEdgeForRepeat ==
  num_states_ctc # Unset =>
    \A w \in 1..Len(lem_list) : \A i \in 0..(Len(lem_list[w]) - 1) :
       CtcRepeated(w, i) => CtcRepeatPaths(CtcOffset(lem_list, w) + i, lem_list[w][i + 1])

\* Ctc.run has ended on a sentence with a word that follows a first word and
\* has a label that repeats the one before it
C10_Witness ==
  /\ num_states_ctc # Unset
  /\ \E w \in 2..Len(lem_list) : \E i \in 1..(Len(lem_list[w]) - 1) : CtcRepeated(w, i)

\* the number of values cur_idx takes in the lattice of lems: labels and separators
CtcPositions(lems) == CtcOffset(lems, Len(lems)) + Len(lems[Len(lems)])

\* the former final states of the finalized CTC graph: the last lattice state
\* and the end state of the three tail edges
CtcFormerFinals == {2 * CtcPositions(lem_list), 2 * CtcPositions(lem_list) + 3}

\* es has an edge with the source, label and weight of e that ends at t
HasCounterpart(es, e, t) ==
  \E k \in 1..Len(es) : /\ es[k].source_state_idx = e.source_state_idx
                        /\ es[k].target_state_idx = t
                        /\ es[k].label = e.label
                        /\ es[k].weight = e.weight

\* what C11 says of the new final state F of the finalized CTC graph
CtcUnified(F) ==
  /\ F = 2 * CtcPositions(lem_list) + 4
  /\ \A k \in 1..Len(edges_ctc) :
       (/\ edges_ctc[k].target_state_idx \in CtcFormerFinals
        /\ edges_ctc[k].source_state_idx # edges_ctc[k].target_state_idx)
         => HasCounterpart(edges_ctc, edges_ctc[k], F)
  /\ \A f \in CtcFormerFinals :
       \E k \in 1..Len(edges_ctc) :
          edges_ctc[k].source_state_idx = f /\ edges_ctc[k].target_state_idx = F
  /\ \A k \in 1..Len(edges_ctc) : edges_ctc[k].source_state_idx # F
  /\ \A s \in 0..(F - 1) :
       \E k \in 1..Len(edges_ctc) :
          edges_ctc[k].source_state_idx = s /\ edges_ctc[k].target_state_idx # s

\* C11: Ctc.run adds exactly one new final state F = num_states_ctc - 1 after
\* the lattice and the tail; every edge that ended at a former final state has
\* a counterpart with its source, label and weight that ends at F, each former
\* final state has an edge to F, F has no outgoing edge and no self-loop, and
\* every other state has an edge to another state: F is the unique final state
C11_SingleFinalState == num_states_ctc # Unset => CtcUnified(num_states_ctc - 1)

\* Ctc.run has ended on a sentence of two words
C11_Witness == num_states_ctc # Unset /\ ctc.runs = 1 /\ Len(lem_list) = 2

\* the edges of the finalized ASG graph that advance (no self-loop), in list order
AsgAdvancing == SelectSeq(edges_asg, LAMBDA e: ~e.is_loop)

\* the label of a finalized ASG edge that emits the character ch
AsgEmit(ch) ==
  IF asg.label_conversion THEN ConvertLabel(Edge(0, 0, Str(<<ch>>), 0)).label
  ELSE Str(<<ch>>)

\* the repeat marker for j repetitions
AsgMarker(j) == Num(asg.num_labels + j)

\* the label l is a repeat marker (the characters of the model are below num_labels)
IsMarker(l) == l.t = "int" /\ l.n > asg.num_labels

\* the sentence is one word, one character k times, with 2 <= k <= R + 1
AsgSingleRun ==
  /\ Len(lem_list) = 1
  /\ Len(lem_list[1]) \in 2..(asg.asg_repetition + 1)
  /\ \A i \in 1..Len(lem_list[1]) : lem_list[1][i] = lem_list[1][1]

\* C12: for a sentence of one word that is one character c, k times, with
\* 2 <= k <= R + 1, the advancing edges of edges_asg carry the labels
\* [c, num_labels + (k - 1)]
C12_RunAtWordEnd ==
  (num_states_asg # Unset /\ AsgSingleRun) =>
     [i \in 1..Len(AsgAdvancing) |-> AsgAdvancing[i].label]
       = <<AsgEmit(lem_list[1][1]), AsgMarker(Len(lem_list[1]) - 1)>>

\* the word w (1-based) of the sentence has no two adjacent equal characters
NoAdjacentEqual(w) ==
  \A i \in 1..(Len(lem_list[w]) - 1) : lem_list[w][i] # lem_list[w][i + 1]

\* the positions in edges_asg of the edges of word w, loops or advancing edges
AsgEdgesOfWord(w, loop) ==
  {k \in 1..Len(edges_asg) :
     edges_asg[k].idx_word_in_sentence = w - 1 /\ edges_asg[k].is_loop = loop}

\* C13: in edges_asg every word without two adjacent equal characters has
\* exactly len(word) advancing edges, none with a repeat-marker label, and
\* exactly one self-loop per advancing edge
C13_PlainWordEdges ==
  num_states_asg # Unset =>
    \A w \in 1..Len(lem_list) :
       NoAdjacentEqual(w) =>
          /\ Cardinality(AsgEdgesOfWord(w, FALSE)) = Len(lem_list[w])
          /\ \A k \in AsgEdgesOfWord(w, FALSE) : ~IsMarker(edges_asg[k].label)
          /\ Cardinality(AsgEdgesOfWord(w, TRUE)) = Len(lem_list[w])

RECURSIVE AsgFlat(_, _)
\* the labels of the words w.. of lems in the order Asg.run scans them
AsgFlat(lems, w) == IF w > Len(lems) THEN <<>> ELSE lems[w] \o AsgFlat(lems, w + 1)

\* rep_count after the first n labels of the sentence: label_prev and rep_count
\* are set before the loop over the words and live across them
AsgRepCount(n) ==
  AsgScanWord(asg, SubSeq(AsgFlat(lem_list, 1), 1, n), 1,
              [reps |-> <<>>, prev |-> NoneLabel, cnt |-> 0]).cnt

\* C14: with R > 1, rep_count never exceeds R in Asg.run, and every
\* repeat-marker label of edges_asg is num_labels + j with 1 <= j <= R
C14_RepetitionCap ==
  (num_states_asg # Unset /\ asg.asg_repetition > 1) =>
     /\ \A n \in 0..Len(AsgFlat(lem_list, 1)) : AsgRepCount(n) <= asg.asg_repetition
     /\ \A k \in 1..Len(edges_asg) :
          IsMarker(edges_asg[k].label) =>
             edges_asg[k].label.n - asg.num_labels \in 1..asg.asg_repetition

\* Asg.run has ended on a word of R + 2 equal characters: the counter reached
\* R and the marker num_labels + R was emitted
C14_Witness ==
  /\ num_states_asg # Unset
  /\ Len(lem_list) = 1 /\ Len(lem_list[1]) = asg.asg_repetition + 2
  /\ \A i \in 1..Len(lem_list[1]) : lem_list[1][i] = lem_list[1][1]
  /\ \E k \in 1..Len(edges_asg) : edges_asg[k].label = AsgMarker(asg.asg_repetition)

\* the edge at position k of edges_hmm is a phoneme edge: not a self-loop, and
\* not a silence or epsilon edge (those carry no word index)
HmmIsPhon(k) ==
  /\ edges_hmm[k].idx_word_in_sentence # None
  /\ edges_hmm[k].source_state_idx # edges_hmm[k].target_state_idx

\* the positions in edges_hmm of the phoneme edges of word w (1-based)
HmmPhonEdgesOf(w) ==
  {k \in 1..Len(edges_hmm) : HmmIsPhon(k) /\ edges_hmm[k].idx_word_in_sentence = w - 1}

\* the number of phoneme edges of edges_hmm that leave, and that enter, state x
HmmPhonOut(x) ==
  Cardinality({k \in 1..Len(edges_hmm) : HmmIsPhon(k) /\ edges_hmm[k].source_state_idx = x})

HmmPhonIn(x) ==
  Cardinality({k \in 1..Len(edges_hmm) : HmmIsPhon(k) /\ edges_hmm[k].target_state_idx = x})

\* the number of silence and epsilon edges of edges_hmm that leave state x
HmmSilOut(x) ==
  Cardinality({k \in 1..Len(edges_hmm) :
     /\ edges_hmm[k].idx_word_in_sentence = None
     /\ edges_hmm[k].source_state_idx = x
     /\ edges_hmm[k].target_state_idx # x})

\* the number of phonemes of variant i of the word w of the sentence
HmmPhonCount(w, i) == Len(SplitOn(hmm.lexicon[lem_list[w]][i].phon, 32))

\* the word w has two pronunciation variants of different phoneme counts
HmmTwoVariants(w) ==
  /\ Len(hmm.lexicon[lem_list[w]]) = 2
  /\ HmmPhonCount(w, 1) # HmmPhonCount(w, 2)

\* the phoneme edges P of a word form a diamond from s to m: its two first
\* edges leave s, its two last edges enter m, s has phoneme out-degree 2 and m
\* phoneme in-degree 2, there are n edges, every state in between is entered by
\* one phoneme edge, left by one phoneme edge and left by no silence or epsilon
\* edge, and the silence and the epsilon edge after the word leave m
HmmDiamond(P, s, m, n) ==
  /\ Cardinality({k \in P : edges_hmm[k].phon_at_word_begin}) = 2
  /\ \A k \in P : edges_hmm[k].phon_at_word_begin => edges_hmm[k].source_state_idx = s
  /\ Cardinality({k \in P : edges_hmm[k].phon_at_word_end}) = 2
  /\ \A k \in P : edges_hmm[k].phon_at_word_end => edges_hmm[k].target_state_idx = m
  /\ HmmPhonOut(s) = 2 /\ HmmPhonIn(m) = 2
  /\ Cardinality(P) = n
  /\ \A k \in P :
       ~edges_hmm[k].phon_at_word_end =>
          /\ HmmPhonIn(edges_hmm[k].target_state_idx) = 1
          /\ HmmPhonOut(edges_hmm[k].target_state_idx) = 1
          /\ HmmSilOut(edges_hmm[k].target_state_idx) = 0
  /\ HmmSilOut(m) = 2

\* C15: with K = 1, in edges_hmm the phoneme edges of a word with two variants
\* of different phoneme counts form a diamond: both first edges leave one split
\* state, both last edges enter one merge state, the split state has phoneme
\* out-degree 2 and the merge state phoneme in-degree 2, the two variants share
\* no state in between, and the silence and epsilon edges after the word leave
\* the merge state
C15_SplitMerge ==
  (pc = "idle" /\ num_states_hmm > 0 /\ hmm.allo_num_states = 1) =>
     \A w \in 1..Len(lem_list) :
        HmmTwoVariants(w) =>
           \E s, m \in StatesOf(edges_hmm) :
              HmmDiamond(HmmPhonEdgesOf(w), s, m, HmmPhonCount(w, 1) + HmmPhonCount(w, 2))

\* Hmm.run with K = 1 has ended on a sentence whose second word has two
\* variants of different phoneme counts, the second one the longer
C15_Witness ==
  /\ pc = "idle" /\ num_states_hmm > 0 /\ hmm.allo_num_states = 1
  /\ Len(lem_list) = 2 /\ HmmTwoVariants(2)
  /\ HmmPhonCount(2, 1) < HmmPhonCount(2, 2)

\* es is in non-decreasing order of (source, target, label, weight)
Sorted(es) == \A i \in 1..(Len(es) - 1) : ~EdgeLess(es[i + 1], es[i])

\* C16: every finalized edge list is in non-decreasing order of (source,
\* target, label, weight) and sorting it again leaves it as it is, with the
\* label conversion of ASG and CTC and the state tying of HMM on or off
C16_FinalizedSorted ==
  /\ Sorted(edges_asg) /\ Sort(edges_asg) = edges_asg
  /\ Sorted(edges_ctc) /\ Sort(edges_ctc) = edges_ctc
  /\ Sorted(edges_hmm) /\ Sort(edges_hmm) = edges_hmm

\* Asg.run with the label conversion on has ended with the separator on and
\* with a repeat marker among the labels
C16_Witness ==
  /\ num_states_asg # Unset /\ asg.label_conversion /\ asg.separator
  /\ \E k \in 1..Len(edges_asg) : IsMarker(edges_asg[k].label)

\* the step of a call of Store.label_conversion
StoreStep == pc = "static" /\ pc' = "converted"

\* the label l of an edge is one of the reserved symbols
Reserved(l) == l \in {BLANK, SIL, EPS}

\* f is e with another label, or e itself
SameButLabel(e, f) == f = [e EXCEPT !.label = f.label]

\* what the conversion of the edge e into f does to the reserved symbols and
\* to integer labels, and to the other fields
ConvertedReserved(e, f) ==
  /\ e.label = BLANK => f.label = Num(32)
  /\ (e.label \in {SIL, EPS} \/ e.label.t = "int") => f.label = e.label
  /\ SameButLabel(e, f)

\* C17 as stated: every label that is a single printable character becomes
\* its character code, the blank symbol becomes 32, silence, epsilon and
\* integer labels stay, and source, target and weight stay
C17_EveryCharacter ==
  [][StoreStep =>
       /\ Len(edges') = Len(edges)
       /\ \A i \in 1..Len(edges) :
            /\ edges[i].label.t = "str" => edges'[i].label = Num(edges[i].label.s[1])
            /\ ConvertedReserved(edges[i], edges'[i])]_vars

\* C17: every label that is a single character other than the three reserved
\* symbols becomes its character code, the blank symbol becomes 32, silence,
\* epsilon and integer labels stay, and source, target and weight stay
C17_LabelConversion ==
  [][StoreStep =>
       /\ Len(edges') = Len(edges)
       /\ \A i \in 1..Len(edges) :
            /\ (edges[i].label.t = "str" /\ ~Reserved(edges[i].label))
                 => edges'[i].label = Num(edges[i].label.s[1])
            /\ ConvertedReserved(edges[i], edges'[i])]_vars

\* a list of two edges has been converted: the first label is the code of 'a',
\* the second the code of the space character
C17_Witness ==
  /\ pc = "converted" /\ Len(edges) = 2
  /\ edges[1].label = Num(97) /\ edges[2].label = Num(32)

\* the step of a call of Graph.make_single_state_graph
SingleStep == pc \in {"static", "converted"} /\ pc' = "single"

\* C18: Graph.make_single_state_graph leaves num_states and the list it is
\* called on as they are; the list it returns has the same number of edges,
\* each the edge at its position with source = target = 0 when num_states > 1
\* and the same edge when num_states <= 1
C18_SingleStateGraph ==
  [][SingleStep =>
       /\ edges' = edges /\ num_states' = num_states
       /\ Len(edges_single_state') = Len(edges)
       /\ \A i \in 1..Len(edges) :
            edges_single_state'[i] =
              IF num_states > 1
                THEN [edges[i] EXCEPT !.source_state_idx = 0, !.target_state_idx = 0]
                ELSE edges[i]]_vars

\* the function has returned the collapse of a list of two edges, one of them
\* from state 2 to state 1
C18_Witness ==
  /\ pc = "single" /\ num_states > 1 /\ Len(edges) = 2
  /\ edges[2].source_state_idx = 2
  /\ edges_single_state[2].source_state_idx = 0

\* C19: the renumbering pass ends: from every state of the pass a state is
\* reached in which a scan has come to the end of the list without a swap
C19_RepairTerminates == (pc = "repair") ~> (pc = "loops")

\* the pass has ended after a swap: edge 0, which no scan after a swap looks
\* at, has source > target
C19_Witness ==
  /\ pc = "loops" /\ sort_idx = Len(edges)
  /\ edges[1].source_state_idx > edges[1].target_state_idx

\* the step of the allophone expansion of Hmm.run
AlloStep == pc = "allo" /\ pc' = "repair"

\* the positions of the phoneme edges (neither silence nor epsilon) of es
PhonPositions(es) == {i \in 1..Len(es) : es[i].label # SIL /\ es[i].label # EPS}

\* the number of edges of es that enter, and that leave, state x
InDegree(es, x) == Cardinality({m \in 1..Len(es) : es[m].target_state_idx = x})

OutDegree(es, x) == Cardinality({m \in 1..Len(es) : es[m].source_state_idx = x})

RECURSIVE AlloChainOf(_, _, _, _, _, _)
\* in the list new the edge at position k is sub-edge j of the chain of the
\* edge e: it is e but for source, target and allophone index j; sub-edge 0
\* leaves the source of e, sub-edge K - 1 enters the target of e, every other
\* one enters a fresh state (n or above) that one edge enters and one edge
\* leaves, and the edge that leaves it is sub-edge j + 1 of the chain
AlloChainOf(new, e, k, j, K, n) ==
  /\ new[k] = [e EXCEPT !.source_state_idx = new[k].source_state_idx,
                        !.target_state_idx = new[k].target_state_idx,
                        !.allo_idx = j]
  /\ j = 0 => new[k].source_state_idx = e.source_state_idx
  /\ IF j = K - 1 THEN new[k].target_state_idx = e.target_state_idx
     ELSE /\ new[k].target_state_idx >= n
          /\ InDegree(new, new[k].target_state_idx) = 1
          /\ OutDegree(new, new[k].target_state_idx) = 1
          /\ AlloChainOf(new, e,
               CHOOSE m \in 1..Len(new) : new[m].source_state_idx = new[k].target_state_idx,
               j + 1, K, n)

\* what C20 says of the expansion of the list old with n states into the list
\* new with n2 states
AlloExpanded(old, n, new, n2, K) ==
  IF K > 1
    THEN /\ n2 = n + (K - 1) * Cardinality(PhonPositions(old))
         /\ Len(new) = Len(old) + (K - 1) * Cardinality(PhonPositions(old))
         /\ \A i \in 1..Len(old) :
              IF i \in PhonPositions(old) THEN AlloChainOf(new, old[i], i, 0, K, n)
              ELSE new[i] = old[i]
         /\ \A i \in (Len(old) + 1)..Len(new) : i \in PhonPositions(new)
    ELSE /\ n2 = n /\ new = old
         /\ \A i \in 1..Len(new) : new[i].allo_idx = None

\* C20: the allophone expansion with K > 1 turns every phoneme edge (s, t)
\* into a chain of exactly K edges from s to t through K - 1 fresh states that
\* no other edge uses, with the allophone indices 0..K-1 in path order and the
\* label and the annotations of the edge; silence and epsilon edges stay as
\* they are; num_states grows by (K - 1) times the number of phoneme edges;
\* with K = 1 nothing changes and no allophone index is set
C20_AlloExpansion ==
  [][AlloStep =>
       AlloExpanded(edges, num_states, edges', num_states', hmm.allo_num_states)]_vars

\* the expansion with K = 3 has been made on a sentence of two words whose
\* first word has two variants
C20_Witness ==
  /\ pc = "repair" /\ sort_idx = 0 /\ hmm.allo_num_states = 3
  /\ Len(lem_list) = 2 /\ Len(hmm.lexicon[lem_list[1]]) = 2
  /\ \E i \in 1..Len(edges) : edges[i].allo_idx = 2

\* the positions of edges_asg with a loop copy at state i that has the label l
AsgLoopsAt(i, l) ==
  {j \in 1..Len(edges_asg) : /\ edges_asg[j].is_loop
                             /\ edges_asg[j].source_state_idx = i
                             /\ edges_asg[j].target_state_idx = i
                             /\ edges_asg[j].label = l}

\* the positions of edges_asg with an edge of the expansion that ends at state
\* i and has the label l
AsgEndingAt(i, l) ==
  {j \in 1..Len(edges_asg) : /\ ~edges_asg[j].is_loop
                             /\ edges_asg[j].target_state_idx = i
                             /\ edges_asg[j].label = l}

\* C21: in edges_asg every edge of the expansion ends at a state from 1 to the
\* last state, and has one self-loop copy at that state, with its label, unless
\* its label is epsilon or silence, and then it has none; every self-loop is
\* such a copy, so that state 0 has no self-loop and no copy is copied again;
\* the sentence 'ab ab' gives 10 edges with the separator and 8 without
C21_AsgSelfLoops ==
  num_states_asg # Unset =>
    /\ \A k \in 1..Len(edges_asg) :
         LET e == edges_asg[k]
         IN IF e.is_loop
              THEN /\ e.source_state_idx = e.target_state_idx
                   /\ e.source_state_idx \in 1..(num_states_asg - 1)
                   /\ \E j \in 1..Len(edges_asg) :
                        /\ ~edges_asg[j].is_loop
                        /\ edges_asg[j] = [e EXCEPT !.source_state_idx =
                                                      edges_asg[j].source_state_idx,
                                                    !.is_loop = FALSE]
              ELSE /\ e.target_state_idx \in 1..(num_states_asg - 1)
                   /\ e.source_state_idx # e.target_state_idx
                   /\ Cardinality(AsgLoopsAt(e.target_state_idx, e.label))
                        = IF e.label \in {EPS, SIL} THEN 0
                          ELSE Cardinality(AsgEndingAt(e.target_state_idx, e.label))
    /\ lem_list = <<<<97, 98>>, <<97, 98>>>> =>
         Len(edges_asg) = IF asg.separator THEN 10 ELSE 8

\* an Asg.run gave an edge with the epsilon label, that has no self-loop, next
\* to edges that have theirs
C21_Witness ==
  /\ num_states_asg # Unset
  /\ \E k \in 1..Len(edges_asg) :
       /\ ~edges_asg[k].is_loop /\ edges_asg[k].label = EPS
       /\ AsgLoopsAt(edges_asg[k].target_state_idx, EPS) = {}
  /\ \E k \in 1..Len(edges_asg) : edges_asg[k].is_loop

RECURSIVE CtcFlat(_, _)
\* the characters of the words w.. of lems in the order of cur_idx, with 0 at
\* the position of a separator
CtcFlat(lems, w) ==
  IF w > Len(lems) THEN <<>>
  ELSE lems[w] \o (IF w < Len(lems) THEN <<0>> ELSE <<>>) \o CtcFlat(lems, w + 1)

\* the label of a finalized CTC silence edge
CtcSil ==
  IF ctc.label_conversion THEN ConvertLabel(Edge(0, 0, SIL, 0)).label ELSE SIL

\* the label and weight of the first edge, in construction order, that ends at
\* the intermediate state i: blank into an odd lattice state, the character or
\* the silence of the position into an even one, and the three tail edges
CtcFirstInto(i) ==
  LET flat == CtcFlat(lem_list, 1)
      nl == 2 * Len(flat) + 1
  IN IF i < nl
       THEN IF i % 2 = 1 THEN [label |-> CtcBlank, weight |-> 0]
            ELSE IF flat[i \div 2] = 0 THEN [label |-> CtcSil, weight |-> 0]
            ELSE [label |-> CtcEmit(flat[i \div 2]), weight |-> 0]
     ELSE IF i = nl + 1 THEN [label |-> CtcEmit(flat[Len(flat)]), weight |-> 1]
     ELSE [label |-> CtcBlank, weight |-> 1]

\* the positions of edges_ctc with a self-loop at state i
CtcLoopsAt(i) ==
  {k \in 1..Len(edges_ctc) : /\ edges_ctc[k].is_loop
                             /\ edges_ctc[k].source_state_idx = i
                             /\ edges_ctc[k].target_state_idx = i}

\* C22: in edges_ctc every state from 1 to num_states_ctc - 2 has exactly one
\* self-loop, with the label and weight of the first edge constructed into that
\* state, which is an edge of the list; state 0 and state num_states_ctc - 1
\* have no self-loop
C22_CtcSelfLoops ==
  num_states_ctc # Unset =>
    /\ \A i \in 1..(num_states_ctc - 2) :
         /\ Cardinality(CtcLoopsAt(i)) = 1
         /\ \A k \in CtcLoopsAt(i) :
              /\ edges_ctc[k].label = CtcFirstInto(i).label
              /\ edges_ctc[k].weight = CtcFirstInto(i).weight
              /\ \E j \in 1..Len(edges_ctc) :
                   /\ ~edges_ctc[j].is_loop
                   /\ edges_ctc[j].target_state_idx = i
                   /\ edges_ctc[j].label = edges_ctc[k].label
                   /\ edges_ctc[j].weight = edges_ctc[k].weight
    /\ \A k \in 1..Len(edges_ctc) :
         edges_ctc[k].is_loop =>
           /\ edges_ctc[k].source_state_idx = edges_ctc[k].target_state_idx
           /\ edges_ctc[k].source_state_idx \in 1..(num_states_ctc - 2)

\* the second Ctc.run of a builder on a sentence of two words: a state with
\* several incoming edges has its one self-loop
C22_Witness ==
  /\ num_states_ctc # Unset /\ ctc.runs = 2 /\ Len(lem_list) >= 2
  /\ \E i \in 1..(num_states_ctc - 2) :
       /\ Cardinality(CtcLoopsAt(i)) = 1
       /\ Cardinality({j \in 1..Len(edges_ctc) : /\ ~edges_ctc[j].is_loop
                                                 /\ edges_ctc[j].target_state_idx = i}) >= 2

\* the label the state tying part leaves on the edge e of the working list
\* when the conversion is enabled
TiedLabel(e) ==
  LET s == _build_allo_syntax_for_mapping(e)
  IN IF e.label = EPS THEN EPS
     ELSE IF s \in DOMAIN hmm.allo_map THEN Num(hmm.allo_map[s])
     ELSE Str(s)

\* the number of positions of es that hold the edge e
Occurrences(es, e) == Cardinality({k \in 1..Len(es) : es[k] = e})

\* C23: a Hmm.run with the state tying conversion enabled that reaches "add
\* loops" ends with one finalized edge for each edge and each loop copy of the
\* working list, with the integer id of its allophone string when the string
\* is a key of the map, with the string itself when it is not, and with the
\* epsilon symbol when the edge is an epsilon edge
C23_StateTying ==
  [][(HmmFinishStep /\ hmm.state_tying_conversion) =>
       LET looped == HmmAddLoops(edges, 1, num_states)
           tied == [i \in 1..Len(looped) |-> [looped[i] EXCEPT !.label = TiedLabel(looped[i])]]
       IN /\ num_states_hmm' = num_states
          /\ Len(edges_hmm') = Len(tied)
          /\ \A i \in 1..Len(tied) :
               Occurrences(edges_hmm', tied[i]) = Occurrences(tied, tied[i])]_vars

\* a finalized HMM built with a map that has the epsilon symbol as a key: an
\* edge with an integer id, an edge that kept its allophone string, and an
\* epsilon edge
C23_Witness ==
  /\ pc = "idle" /\ num_states_hmm > 0 /\ hmm.state_tying_conversion
  /\ <<42>> \in DOMAIN hmm.allo_map
  /\ \E k \in 1..Len(edges_hmm) : edges_hmm[k].label = EPS
  /\ \E k \in 1..Len(edges_hmm) : edges_hmm[k].label.t = "int"
  /\ \E k \in 1..Len(edges_hmm) :
       edges_hmm[k].label.t = "str" /\ Len(edges_hmm[k].label.s) > 1
       /\ edges_hmm[k].label.s[1] # 91

\* every edge of es has is_loop set exactly when it is a self-loop
LoopsFlagged(es) ==
  \A k \in 1..Len(es) : es[k].is_loop <=> (es[k].source_state_idx = es[k].target_state_idx)

\* C24: in every finalized topology an edge has is_loop set if and only if it
\* is a self-loop, the expansions giving no self-loop of their own
C24_LoopFlag ==
  /\ num_states_asg # Unset => LoopsFlagged(edges_asg)
  /\ num_states_ctc # Unset => LoopsFlagged(edges_ctc)
  /\ (pc = "idle" /\ num_states_hmm > 0) => LoopsFlagged(edges_hmm)

\* C25: after a Hmm.run that ended with the KeyError of the lexicon lookup, the
\* finalized fields of every topology that has been built are those of a run
\* of its builder on the Graph as constructed
C25_NoContamination == raised > 0 => FreshResults

\* C26: while no run was aborted, a run of a builder whose topology has been
\* built before leaves the finalized state count and edge list of that
\* topology as they were
C26_RunIdempotent ==
  [][raised = 0 =>
       /\ num_states_asg # Unset =>
            (num_states_asg' = num_states_asg /\ edges_asg' = edges_asg)
       /\ num_states_ctc # Unset =>
            (num_states_ctc' = num_states_ctc /\ edges_ctc' = edges_ctc)
       /\ (HmmFinishStep /\ edges_hmm # <<>>) => edges_hmm' = edges_hmm]_vars

\* the finalized label of the HMM silence edges and of the epsilon edges
HmmSilLabel ==
  IF hmm.state_tying_conversion
       /\ SilenceToken \o <<123, 35, 43, 35, 125, 46, 48>> \in DOMAIN hmm.allo_map
    THEN Num(hmm.allo_map[SilenceToken \o <<123, 35, 43, 35, 125, 46, 48>>])
    ELSE Str(SilenceToken \o <<123, 35, 43, 35, 125, 46, 48>>)

\* edges_hmm has an edge from s to t, s # t, with the label l and no word index
HmmPlainEdge(s, t, l) ==
  \E k \in 1..Len(edges_hmm) : /\ edges_hmm[k].source_state_idx = s
                               /\ edges_hmm[k].target_state_idx = t
                               /\ edges_hmm[k].label = l
                               /\ edges_hmm[k].idx_word_in_sentence = None

\* C27: in edges_hmm state 0 has no incoming edge and a silence and an epsilon
\* edge leave it for the same state; state num_states_hmm - 1 has no outgoing
\* edge but its self-loops, and a silence and an epsilon edge enter it from a
\* state where a last phoneme of the last word ends
C27_StartAndFinal ==
  (pc = "idle" /\ num_states_hmm > 0) =>
    /\ \A k \in 1..Len(edges_hmm) :
         /\ edges_hmm[k].target_state_idx # 0
         /\ edges_hmm[k].source_state_idx = num_states_hmm - 1
              => edges_hmm[k].target_state_idx = num_states_hmm - 1
    /\ \E t \in 1..(num_states_hmm - 1) :
         HmmPlainEdge(0, t, HmmSilLabel) /\ HmmPlainEdge(0, t, EPS)
    /\ \E s \in 1..(num_states_hmm - 2) :
         /\ HmmPlainEdge(s, num_states_hmm - 1, HmmSilLabel)
         /\ HmmPlainEdge(s, num_states_hmm - 1, EPS)
         /\ \E k \in HmmPhonEdgesOf(Len(lem_list)) :
              edges_hmm[k].target_state_idx = s /\ edges_hmm[k].phon_at_word_end

\* a finalized HMM of two words with K > 1 and a word of several variants,
\* whose last state has no outgoing edge but its self-loops
C27_Witness ==
  /\ pc = "idle" /\ num_states_hmm > 0 /\ hmm.allo_num_states > 1
  /\ Len(lem_list) = 2
  /\ \E w \in 1..Len(lem_list) : Len(hmm.lexicon[lem_list[w]]) > 1
  /\ \A k \in 1..Len(edges_hmm) :
       edges_hmm[k].source_state_idx = num_states_hmm - 1
         => edges_hmm[k].target_state_idx = num_states_hmm - 1

RECURSIVE ReachBack(_, _, _)
\* the states from which a state of S is reached along edges of es in at most
\* k steps
ReachBack(es, S, k) ==
  IF k = 0 THEN S
  ELSE ReachBack(es, S \cup {es[i].source_state_idx :
                                i \in {j \in 1..Len(es) : es[j].target_state_idx \in S}},
                 k - 1)

\* the automaton with the states 0..n-1 and the edges es is trim: every state
\* is reached from state 0, and state n - 1 is reached from every state
Trim(n, es) ==
  /\ 0..(n - 1) \subseteq Reach(es, {0}, n)
  /\ 0..(n - 1) \subseteq ReachBack(es, {n - 1}, n)

\* C28: every finalized automaton is trim
C28_Trim ==
  /\ num_states_asg # Unset => Trim(num_states_asg, edges_asg)
  /\ num_states_ctc # Unset => Trim(num_states_ctc, edges_ctc)
  /\ (pc = "idle" /\ num_states_hmm > 0) => Trim(num_states_hmm, edges_hmm)

\* C29: the i-th weight BuildSimpleFsaOp.perform returns is the weight that
\* was generated together with the i-th edge it returns
C29_WeightsAligned ==
  output_storage # <<>> =>
    LET g == SimpleFsaGenerated(state_models, labels)
    IN /\ Len(output_storage.weights) = Len(output_storage.edges)
       /\ \A i \in 1..Len(output_storage.edges) : \A j \in 1..Len(g.edges) :
            g.edges[j] = output_storage.edges[i]
              => g.weights[j] = output_storage.weights[i]

\* the step of a call of the getters of FastBwFsaShared
GetStep == fast_bw_fsa' # fast_bw_fsa

\* the states the column col of an edge matrix uses
ColumnStates(col) == {col[1], col[2]}

\* what the getters returned, r, for the object self: num_edges is n_batch
\* times the number of stored edges, for the edges and for the weights; column
\* b * len(edges) + k holds the k-th stored edge moved into the range of batch
\* entry b, and its weight; batch entry b starts at b * num_states and ends at
\* (b + 1) * num_states - 1; columns of different batch entries share no state
BatchLayout(self, r) ==
  LET n == Len(self.edges)
      ns == self.num_states
  IN /\ r.num_edges = r.n_batch * n
     /\ Len(r.fsa.edges) = r.num_edges
     /\ Len(r.fsa.weights) = r.num_edges
     /\ Len(r.fsa.start_end_states) = r.n_batch
     /\ \A b \in 0..(r.n_batch - 1) :
          /\ r.fsa.start_end_states[b + 1] = <<b * ns, (b + 1) * ns - 1>>
          /\ \A k \in 1..n :
               LET col == r.fsa.edges[b * n + k]
               IN /\ col = <<self.edges[k].source_state_idx + b * ns,
                             self.edges[k].target_state_idx + b * ns,
                             self.edges[k].label.n, b>>
                  /\ ColumnStates(col) \subseteq (b * ns)..((b + 1) * ns - 1)
                  /\ r.fsa.weights[b * n + k] = self.edges[k].weight
     /\ \A i, j \in 1..Len(r.fsa.edges) :
          r.fsa.edges[i][4] # r.fsa.edges[j][4]
            => ColumnStates(r.fsa.edges[i]) \cap ColumnStates(r.fsa.edges[j]) = {}

\* C30: num_states of a FastBwFsaShared object is at least 1 and larger than
\* every source and target index of its edges, and every call of the getters
\* returns the batch layout of the object as it is then
C30_SharedBatches ==
  /\ [](/\ fsa_shared.num_states >= 1
        /\ \A k \in 1..Len(fsa_shared.edges) :
             /\ fsa_shared.edges[k].source_state_idx < fsa_shared.num_states
             /\ fsa_shared.edges[k].target_state_idx < fsa_shared.num_states)
  /\ [][GetStep => BatchLayout(fsa_shared, fast_bw_fsa')]_vars

\* the getters were called with n_batch = 2 on an object with two edges, one
\* of them ending at state 2
C30_Witness ==
  /\ fast_bw_fsa # <<>> /\ fast_bw_fsa.n_batch = 2 /\ fast_bw_fsa.num_edges = 4
  /\ fsa_shared.num_states = 3
  /\ \E i \in 1..4 : fast_bw_fsa.fsa.edges[i][2] = 5

====
